---------------------------- MODULE Spec2Model ----------------------------
(***************************************************************************)
(* A model of Kawari's zone-server session layer: ZoneConnection           *)
(* (src/src/world/connection.rs), the reference-data lookups it uses       *)
(* (src/src/common/gamedata.rs) and the packet writer                      *)
(* (src/src/packet/send_helpers.rs).                                       *)
(*                                                                         *)
(* A session is one sequential async task.  Every handler is a pure        *)
(* operator on a connection record `c` (the fields of ZoneConnection plus  *)
(* the effects the handler emitted, `out`, and whether it panicked,        *)
(* `crashed`); an action applies one handler and installs the result.      *)
(* Wall-clock timestamps carried by segments are left out of the segment   *)
(* records: no handler reads them back.                                    *)
(***************************************************************************)
EXTENDS Integers, Sequences, FiniteSets, TLC

(***************************************************************************)
(* Bounds of the model.                                                    *)
(***************************************************************************)
\* longest task queue a script leaves behind for one drain
MaxQueue == 2
\* most segments a script queues (per queue) before a drain
MaxQueuedSegments == 1
\* most status effects the world server puts on the player in the model
MaxEffects == 2
\* most segments handed to one send_packet call
MaxSegments == 2
\* longest compressed payload the block compressor returns in the model
MaxCompressedLen == 3

(***************************************************************************)
(* Option<T>: None is the empty sequence, Some(v) the one-element one.     *)
(***************************************************************************)
None == <<>>
Some(v) == <<v>>
IsSome(o) == o # <<>>
Unwrap(o) == o[1]

(***************************************************************************)
(* Fixed-width integers.  u8 and u16 are numbers; a u32 that can reach the *)
(* top of its range is the pair <<high 16 bits, low 16 bits>>.             *)
(***************************************************************************)
Pow2(n) == CASE n = 0 -> 1 [] n = 1 -> 2 [] n = 2 -> 4 [] n = 3 -> 8
             [] n = 4 -> 16 [] n = 5 -> 32 [] n = 6 -> 64 [] n = 7 -> 128

U16Max == 65535
U8Max == 255

U32(n) == <<n \div 65536, n % 65536>>
U32Max == <<U16Max, U16Max>>

\* a + b in u32: the wrapped sum and whether it overflowed
Add32(a, b) ==
  LET lo == a[2] + b[2]
      hi == a[1] + b[1] + (lo \div 65536)
  IN  [value |-> <<hi % 65536, lo % 65536>>, overflow |-> hi >= 65536]

\* a - b in u32: the wrapped difference and whether it underflowed
Sub32(a, b) ==
  LET lo == a[2] - b[2]
      borrow == IF lo < 0 THEN 1 ELSE 0
      hi == a[1] - b[1] - borrow
  IN  [value |-> <<hi % 65536, lo % 65536>>, overflow |-> hi < 0]

\* Rust's `!` on a u8 (connection.rs:509-510)
Not8_Identity(x) == x

Not8(x) == U8Max - x

\* Rust's `!` on a u32 (connection.rs:511)
Not32(w) == <<U16Max - w[1], U16Max - w[2]>>


(***************************************************************************)
(* Reference data (GameData): the sheets the model's lookups read.  The    *)
(* rows are data of the game archive, not code; the model holds a few rows *)
(* that make every branch of the lookups happen.                           *)
(***************************************************************************)
\* Item sheet, in pages (GameData::item_pages); item 9 has no row
item_pages ==
  << << [row_id |-> 1, name |-> "Bronze Sword", item_level |-> 1, stack_size |-> 1] >>,
     << [row_id |-> 2, name |-> "Potion", item_level |-> 1, stack_size |-> 99] >> >>

\* Warp sheet: warp id -> (pop range id, zone id); warp 3 has no row
WarpSheet ==
  { [row_id |-> 1, PopRange |-> 10, TerritoryType |-> 100],
    [row_id |-> 2, PopRange |-> 99, TerritoryType |-> 101] }

\* Aetheryte sheet: aetheryte id -> (pop range id, zone id); aetheryte 3 has no row
AetheryteSheet ==
  { [row_id |-> 1, Level |-> 11, Territory |-> 100],
    [row_id |-> 2, Level |-> 99, Territory |-> 101] }

\* TerritoryType sheet: zone id -> weather rate id; zone 101 has no row
TerritoryTypeSheet ==
  { [row_id |-> 100, WeatherRate |-> 1],
    [row_id |-> 102, WeatherRate |-> 2] }

\* WeatherRate sheet: rows of (weather, rate) pairs in table order
WeatherRateSheet ==
  { [row_id |-> 1, table |-> << <<2, 40>>, <<3, 100>> >>],
    [row_id |-> 2, table |-> << <<4, 0>> >>] }

\* ClassJob sheet's ExpArrayIndex column, as GameData::new collects it:
\* entry k+1 is the index of class/job id k (the adventurer, id 0, has -1)
classjob_exp_indexes == << -1, 0, 1 >>

\* the pop ranges of each zone's layout: pop range id -> translation
ZoneLayout(zone_id) ==
  IF zone_id = 100
    THEN { [instance_id |-> 10, translation |-> <<1, 2, 3>>],
           [instance_id |-> 11, translation |-> <<4, 5, 6>>] }
    ELSE {}

\* sheet.get_row(id): the row, if the sheet has one
get_row(sheet, id) ==
  IF \E r \in sheet : r.row_id = id
    THEN Some(CHOOSE r \in sheet : r.row_id = id)
    ELSE None

(***************************************************************************)
(* GameData lookups.                                                       *)
(***************************************************************************)
RECURSIVE find_item_row(_, _)
\* the `'outer` loop of get_item_info for ItemInfoQuery::ById: the row of the
\* first page that has one
find_item_row(pages, query_item_id) ==
  IF pages = <<>> THEN None
  ELSE LET page == Head(pages)
           hit == { i \in DOMAIN page : page[i].row_id = query_item_id }
       IN  IF hit # {}
             THEN Some(page[CHOOSE i \in hit : \A j \in hit : i <= j])
             ELSE find_item_row(Tail(pages), query_item_id)

\* a faulty variant: every id resolves to the first row of the sheet
get_item_info_AnyRow(query_item_id) ==
  Some([id |-> query_item_id, name |-> item_pages[1][1].name,
        item_level |-> item_pages[1][1].item_level,
        stack_size |-> item_pages[1][1].stack_size])

\* GameData::get_item_info(ItemInfoQuery::ById(id))
get_item_info(query_item_id) ==
  LET result == find_item_row(item_pages, query_item_id)
  IN  IF IsSome(result)
        THEN Some([id |-> query_item_id, name |-> Unwrap(result).name,
                   item_level |-> Unwrap(result).item_level,
                   stack_size |-> Unwrap(result).stack_size])
        ELSE None

\* GameData::get_warp
get_warp(warp_id) ==
  LET row == get_row(WarpSheet, warp_id)
  IN  IF IsSome(row)
        THEN Some(<<Unwrap(row).PopRange, Unwrap(row).TerritoryType>>)
        ELSE None

\* GameData::get_aetheryte
get_aetheryte(aetheryte_id) ==
  LET row == get_row(AetheryteSheet, aetheryte_id)
  IN  IF IsSome(row)
        THEN Some(<<Unwrap(row).Level, Unwrap(row).Territory>>)
        ELSE None

\* a faulty variant: an entry whose rate equals the window value is taken too
select_weather_AtLeast(weather_and_rates, target) ==
  LET over == SelectSeq(weather_and_rates, LAMBDA e : target <= e[2])
  IN  IF over = <<>> THEN None ELSE Some(over[1][1])

\* the tail of GameData::get_weather_rate:
\* weather_and_rates.iter().filter(|(_, rate)| target < *rate).take(1) ... .first()?.0
select_weather(weather_and_rates, target) ==
  LET over == SelectSeq(weather_and_rates, LAMBDA e : target < e[2])
  IN  IF over = <<>> THEN None ELSE Some(over[1][1])

\* GameData::get_weather_rate, with calculate_target()'s value as `target`:
\* the weather of the first entry whose rate exceeds the target
get_weather_rate(weather_rate_id, target) ==
  LET row == get_row(WeatherRateSheet, weather_rate_id)
  IN  IF ~IsSome(row) THEN None
      ELSE select_weather(Unwrap(row).table, target)

\* GameData::get_weather
get_weather(zone_id, target) ==
  LET row == get_row(TerritoryTypeSheet, zone_id)
  IN  IF ~IsSome(row) THEN None
      ELSE get_weather_rate(Unwrap(row).WeatherRate, target)

\* GameData::get_exp_array_index
get_exp_array_index(classjob_id) ==
  IF classjob_id + 1 \in DOMAIN classjob_exp_indexes
    THEN Some(classjob_exp_indexes[classjob_id + 1])
    ELSE None

(***************************************************************************)
(* Inventory (crate::inventory, outside the files modelled line by line):  *)
(* a list of containers in the fixed order `(&Inventory).into_iter()`      *)
(* yields them, each a list of slots.  The game's four item pages and its  *)
(* armoury containers are scaled to one page and the equipped container.   *)
(***************************************************************************)
\* slots of the item page in the model
PageSlots == 2

NoItem == [id |-> 0, quantity |-> U32(0)]

\* Item::new(item_info, quantity)
Item_new(item_info, quantity) == [id |-> item_info.id, quantity |-> quantity]

CurrencyIndex == 3

DefaultInventory ==
  << [container_type |-> "Inventory0", slots |-> [i \in 1..PageSlots |-> NoItem]],
     [container_type |-> "Equipped", slots |-> << [id |-> 1, quantity |-> U32(1)] >>],
     [container_type |-> "Currency", slots |-> << [id |-> 1, quantity |-> U32(1)] >>] >>

\* Inventory::add_in_next_free_slot: the item goes to the first page slot whose
\* quantity is 0; None when every page slot is taken
add_in_next_free_slot(inventory, item) ==
  LET page == inventory[1].slots
      free == { i \in DOMAIN page : page[i].quantity = U32(0) }
  IN  IF free = {} THEN None
      ELSE LET slot == CHOOSE i \in free : \A j \in free : i <= j
           IN  Some([inventory EXCEPT ![1].slots[slot] = item])

\* Storage::num_items: the slots holding something
num_items(container) ==
  Cardinality({ i \in DOMAIN container.slots : container.slots[i].quantity # U32(0) })

\* EquippedStorage::calculate_item_level: from the levels of the equipped items
calculate_item_level(inventory) ==
  LET eq == inventory[2].slots
      info == get_item_info(eq[1].id)
  IN  IF eq[1].quantity # U32(0) /\ IsSome(info) THEN Unwrap(info).item_level ELSE 0

(***************************************************************************)
(* Unlock bitmaps: byte arrays addressed by value_to_flag_byte_index_value. *)
(***************************************************************************)
\* bytes of the aetheryte unlock bitmap
AETHERYTE_UNLOCK_BITMASK_SIZE == 30

\* common::value_to_flag_byte_index_value: (1 << (id % 8), id / 8)
value_to_flag_byte_index_value(in_value) ==
  << Pow2(in_value % 8), in_value \div 8 >>

\* whether `byte` has the one-bit mask `value` set
HasBit(byte, value) == (byte \div value) % 2 = 1

\* byte | value, for a one-bit value
BitOr(byte, value) == IF HasBit(byte, value) THEN byte ELSE byte + value

\* byte ^ value, for a one-bit value
BitXor(byte, value) == IF HasBit(byte, value) THEN byte - value ELSE byte + value

(***************************************************************************)
(* Zone (crate::world::zone): the loaded layout of a territory.            *)
(***************************************************************************)
\* Zone::load
Zone_load(zone_id) == [id |-> zone_id, layout |-> ZoneLayout(zone_id)]

\* Zone::find_pop_range
find_pop_range(zone, instance_id) ==
  IF \E o \in zone.layout : o.instance_id = instance_id
    THEN Some(CHOOSE o \in zone.layout : o.instance_id = instance_id)
    ELSE None

\* ScramblerKeyGenerator::generate: the key material is a function of the seeds
generate(seed1, seed2, seed3) == [derived_from |-> <<seed1, seed2, seed3>>]

\* the InitZone mode byte that announces obfuscation
OBFUSCATION_ENABLED_MODE == 203

(***************************************************************************)
(* The connection record and the primitives every handler is built from.   *)
(***************************************************************************)
\* entries of the per-job level and experience arrays (scaled)
CLASSJOB_ARRAY_SIZE == 2

\* a panic (unwrap/expect on None, an index out of bounds, a checked
\* arithmetic overflow) ends the session's task where it stands
Panic(c) == [c EXCEPT !.crashed = TRUE]

\* the world coordinator's mailbox: self.handle.send(msg)
handle_send(c, msg) == [c EXCEPT !.out = Append(@, [fx |-> "to_server", msg |-> msg])]

\* a faulty variant: the segment is sent with no scrambler keys
send_segment_NoKeys(c, segment) ==
  [c EXCEPT !.out = Append(@,
     [fx |-> "segment", connection_type |-> "Zone",
      compression_type |-> IF c.config.enable_packet_compression
                             THEN "Oodle" ELSE "Uncompressed",
      keys |-> None, segment |-> segment])]

\* ZoneConnection::send_segment: one packet holding the segment, compressed as
\* the session's config says, scrambled with the session's current keys
send_segment(c, segment) ==
  [c EXCEPT !.out = Append(@,
     [fx |-> "segment", connection_type |-> "Zone",
      compression_type |-> IF c.config.enable_packet_compression
                             THEN "Oodle" ELSE "Uncompressed",
      keys |-> c.obsfucation_data.keys, segment |-> segment])]

\* PacketSegment { source_actor: actor_id, target_actor: actor_id,
\*                 segment_type: Ipc, data: Ipc { op_code, data } }
IpcSelf(c, op_code, data) ==
  [segment_type |-> "Ipc", source_actor |-> c.player_data.actor_id,
   target_actor |-> c.player_data.actor_id, op_code |-> op_code, data |-> data]

\* PacketSegment { segment_type: Initialize, ..Default::default() }
InitializeSegment(c) ==
  [segment_type |-> "Initialize", source_actor |-> 0, target_actor |-> 0,
   op_code |-> "", data |-> [actor_id |-> c.player_data.actor_id]]

\* ZoneConnection::actor_control_self
actor_control_self(c, category) ==
  send_segment(c, IpcSelf(c, "ActorControlSelf", category))

\* ZoneConnection::send_message
send_message(c, message) ==
  send_segment(c, IpcSelf(c, "ServerChatMessage", [message |-> message, param |-> 0]))

\* ZoneConnection::get_actor / get_actor_mut: the position of the first roster
\* entry with this id
get_actor(c, id) ==
  LET found == { i \in DOMAIN c.actors : c.actors[i].id = id }
  IN  IF found = {} THEN None
      ELSE Some(CHOOSE i \in found : \A j \in found : i <= j)

\* ZoneConnection::get_free_spawn_index: `self.spawn_index += 1` on a u8
get_free_spawn_index(c) ==
  IF c.spawn_index = U8Max
    THEN IF c.overflow_checks THEN Panic(c) ELSE [c EXCEPT !.spawn_index = 0]
    ELSE [c EXCEPT !.spawn_index = @ + 1]

\* ZoneConnection::spawn_actor: the assert, the next spawn index, NpcSpawn to
\* the client, and the push onto the roster. `zone_id` is not a field of Actor:
\* it notes the zone the player was in when the actor was spawned
spawn_actor(c, actor) ==
  IF actor.id = c.player_data.actor_id THEN Panic(c)
  ELSE LET c1 == get_free_spawn_index(c)
       IN  IF c1.crashed THEN c1
           ELSE LET spawned == [actor EXCEPT !.spawn_index = c1.spawn_index]
                    c2 == send_segment(c1,
                            [segment_type |-> "Ipc", source_actor |-> actor.id,
                             target_actor |-> c1.player_data.actor_id,
                             op_code |-> "NpcSpawn",
                             data |-> [spawn_index |-> spawned.spawn_index,
                                       target_id |-> [object_id |-> actor.id,
                                                      object_type |-> 0]]])
                IN  [c2 EXCEPT !.actors = Append(@, spawned)]

\* ZoneConnection::remove_actor: Delete by spawn index for the first entry
\* with this id, which is taken off the roster; nothing for an unknown id
remove_actor(c, actor_id) ==
  LET found == get_actor(c, actor_id)
  IN  IF ~IsSome(found) THEN c
      ELSE LET actor == c.actors[Unwrap(found)]
               c1 == send_segment(c,
                       [segment_type |-> "Ipc", source_actor |-> actor.id,
                        target_actor |-> c.player_data.actor_id,
                        op_code |-> "Delete",
                        data |-> [spawn_index |-> actor.spawn_index,
                                  actor_id |-> actor_id]])
           IN  [c1 EXCEPT !.actors =
                  [i \in 1..(Len(@) - 1) |->
                     IF i < Unwrap(found) THEN @[i] ELSE @[i + 1]]]

\* whether current_level / current_exp / set_current_* panic: get_exp_array_index
\* is unwrapped, and the i8 index, cast to usize, must lie inside the arrays
exp_index_panics(c) ==
  LET index == get_exp_array_index(c.player_data.classjob_id)
  IN  \/ ~IsSome(index)
      \/ Unwrap(index) < 0
      \/ Unwrap(index) >= CLASSJOB_ARRAY_SIZE

\* the array slot (from 1) of the session's class/job
exp_slot(c) == Unwrap(get_exp_array_index(c.player_data.classjob_id)) + 1

\* ZoneConnection::current_level
current_level(c) == c.player_data.classjob_levels[exp_slot(c)]

\* ZoneConnection::current_exp
current_exp(c) == c.player_data.classjob_exp[exp_slot(c)]

\* ZoneConnection::set_current_level
set_current_level(c, level) ==
  IF exp_index_panics(c) THEN Panic(c)
  ELSE [c EXCEPT !.player_data.classjob_levels[exp_slot(c)] = level]

\* ZoneConnection::set_current_exp
set_current_exp(c, exp) ==
  IF exp_index_panics(c) THEN Panic(c)
  ELSE [c EXCEPT !.player_data.classjob_exp[exp_slot(c)] = exp]

\* ZoneConnection::update_class_info
update_class_info(c) ==
  IF exp_index_panics(c) THEN Panic(c)
  ELSE send_segment(c, IpcSelf(c, "UpdateClassInfo",
         [class_id |-> c.player_data.classjob_id,
          synced_level |-> current_level(c) % 65536,
          class_level |-> current_level(c) % 65536,
          current_level |-> current_level(c) % 65536,
          current_exp |-> current_exp(c)]))

(***************************************************************************)
(* Zone changes.  `env` holds what a handler draws from outside the        *)
(* session: the three fastrand seeds and calculate_target()'s weather      *)
(* window value.                                                           *)
(***************************************************************************)
\* a faulty variant: the seeds go on the wire as they are stored
InitZoneData_RawSeeds(c) ==
  [territory_type |-> Unwrap(c.zone).id,
   weather_id |-> c.weather_id,
   obsfucation_mode |-> IF c.global_config.enable_packet_obsfucation
                          THEN OBFUSCATION_ENABLED_MODE ELSE 0,
   seed1 |-> c.obsfucation_data.seed1,
   seed2 |-> c.obsfucation_data.seed2,
   seed3 |-> c.obsfucation_data.seed3]

\* the InitZone payload change_zone builds
InitZoneData(c) ==
  [territory_type |-> Unwrap(c.zone).id,
   weather_id |-> c.weather_id,
   obsfucation_mode |-> IF c.global_config.enable_packet_obsfucation
                          THEN OBFUSCATION_ENABLED_MODE ELSE 0,
   seed1 |-> Not8(c.obsfucation_data.seed1),
   seed2 |-> Not8(c.obsfucation_data.seed2),
   seed3 |-> Not32(c.obsfucation_data.seed3)]

\* a faulty variant: the class info is not pushed during a zone change
zone_class_info_Skipped(c) == c

\* "Player Class Info" step of change_zone
zone_class_info(c) == update_class_info(c)

\* a faulty variant: the world coordinator is not told
tell_left_zone_Never(c) == c

\* "tell everyone we're gone": the head of change_zone
tell_left_zone(c) ==
  IF IsSome(c.zone)
    THEN handle_send(c, [name |-> "LeftZone",
                         actor_id |-> c.player_data.actor_id,
                         zone_id |-> Unwrap(c.zone).id])
    ELSE c

\* ZoneConnection::change_zone
change_zone(c, new_zone_id, env) ==
  LET \* tell everyone we're gone
      c1 == tell_left_zone(c)
      \* load the new zone now
      c2 == [c1 EXCEPT !.zone = Some(Zone_load(new_zone_id)),
                       !.player_data.zone_id = new_zone_id]
      \* fade in?
      c3 == send_segment(c2, IpcSelf(c2, "PrepareZoning",
              [log_message |-> 0, target_zone |-> c2.player_data.zone_id,
               animation |-> 0, hide_character |-> 0, fade_out |-> 1,
               fade_out_time |-> 1]))
      c4 == zone_class_info(c3)
      \* generate obsfucation-related keys if needed
      c5 == IF c4.config.enable_packet_obsfucation
              THEN [c4 EXCEPT !.obsfucation_data =
                      [keys |-> Some(generate(env.seed1, env.seed2, env.seed3)),
                       seed1 |-> env.seed1, seed2 |-> env.seed2, seed3 |-> env.seed3]]
              ELSE c4
      \* they send the initialize packet again for some reason
      c6 == send_segment(c5, InitializeSegment(c5))
      \* clear the server's copy of the buyback list
      c7 == [c6 EXCEPT !.player_data.buyback_list = <<>>]
      weather == get_weather(Unwrap(c7.zone).id, env.target)
      c8 == [c7 EXCEPT !.weather_id =
                (IF IsSome(weather) THEN Unwrap(weather) ELSE 1) % 65536]
      c9 == send_segment(c8, IpcSelf(c8, "InitZone", InitZoneData(c8)))
      c10 == actor_control_self(c9,
               [category |-> "SetItemLevel",
                level |-> calculate_item_level(c9.player_data.inventory)])
  IN  IF c4.crashed THEN c4 ELSE c10

\* the Position of a layout object
PositionOf(object) ==
  [x |-> object.translation[1], y |-> object.translation[2], z |-> object.translation[3]]

\* Position::default()
Origin == [x |-> 0, y |-> 0, z |-> 0]

\* ZoneConnection::warp
warp(c, warp_id, env) ==
  LET row == get_warp(warp_id)
  IN  IF ~IsSome(row) THEN Panic(c)   \* .expect("Failed to find the warp!")
      ELSE LET pop_range_id == Unwrap(row)[1]
               zone_id == Unwrap(row)[2]
               object == find_pop_range(Zone_load(zone_id), pop_range_id)
               c1 == IF IsSome(object)
                       THEN [c EXCEPT !.exit_position = Some(PositionOf(Unwrap(object)))]
                       ELSE c   \* "Falling back to 0,0,0!" is logged, nothing is set
           IN  change_zone(c1, zone_id, env)

\* ZoneConnection::warp_aetheryte
warp_aetheryte(c, aetheryte_id, env) ==
  LET row == get_aetheryte(aetheryte_id)
  IN  IF ~IsSome(row) THEN Panic(c)   \* .expect("Failed to find the aetheryte!")
      ELSE LET pop_range_id == Unwrap(row)[1]
               zone_id == Unwrap(row)[2]
               object == find_pop_range(Zone_load(zone_id), pop_range_id)
               c1 == IF IsSome(object)
                       THEN [c EXCEPT !.exit_position = Some(PositionOf(Unwrap(object)))]
                       ELSE c
           IN  change_zone(c1, zone_id, env)

\* the position get_player_common_spawn gives the player: exit_position.unwrap_or_default()
spawn_position(exit_position) ==
  IF IsSome(exit_position) THEN Unwrap(exit_position) ELSE Origin

\* ZoneConnection::change_weather
change_weather(c, new_weather_id) ==
  send_segment([c EXCEPT !.weather_id = new_weather_id],
               IpcSelf(c, "WeatherId", [weather_id |-> new_weather_id]))

\* ZoneConnection::toggle_invisibility
toggle_invisibility(c, invisible) ==
  send_segment([c EXCEPT !.player_data.gm_invisible = invisible],
               IpcSelf(c, "ActorControlSelf",
                       [category |-> "ToggleInvisibility", invisible |-> invisible]))

(***************************************************************************)
(* Inventory synchronisation.                                              *)
(***************************************************************************)
\* a faulty variant: empty slots are never reported
skips_slot_Always(item, first_update) == item.quantity = U32(0)

\* "skip telling the client what they don't have"
skips_slot(item, first_update) == item.quantity = U32(0) /\ first_update

RECURSIVE send_slots(_, _, _, _, _)
\* the per-slot loop of send_inventory: `for i in 0..container.max_slots()`
send_slots(c, sequence, container, i, first_update) ==
  IF i > Len(container.slots) THEN c
  ELSE LET item == container.slots[i]
           c1 == IF skips_slot(item, first_update) THEN c
                 ELSE IF container.container_type = "Currency"
                   THEN send_segment(c, IpcSelf(c, "CurrencyCrystalInfo",
                          [sequence |-> sequence, container |-> container.container_type,
                           quantity |-> item.quantity, catalog_id |-> item.id]))
                   ELSE send_segment(c, IpcSelf(c, "UpdateItem",
                          [sequence |-> sequence, container |-> container.container_type,
                           slot |-> i - 1, quantity |-> item.quantity,
                           catalog_id |-> item.id]))
       IN  send_slots(c1, sequence, container, i + 1, first_update)

RECURSIVE send_containers(_, _, _, _)
\* the per-container loop of send_inventory; container k has sequence k - 1
send_containers(c, inventory, k, first_update) ==
  IF k > Len(inventory) THEN c
  ELSE LET c1 == send_slots(c, k - 1, inventory[k], 1, first_update)
           c2 == send_segment(c1, IpcSelf(c1, "ContainerInfo",
                   [container |-> inventory[k].container_type,
                    num_items |-> num_items(inventory[k]),
                    sequence |-> k - 1]))
       IN  send_containers(c2, inventory, k + 1, first_update)

\* the containers reported empty without being tracked
DummyContainers == << "Crystals", "Mail", "Unk2", "ArmoryWaist" >>

RECURSIVE send_dummy_containers(_, _, _)
\* the closing loop of send_inventory
send_dummy_containers(c, sequence, k) ==
  IF k > Len(DummyContainers) THEN c
  ELSE send_dummy_containers(
         send_segment(c, IpcSelf(c, "ContainerInfo",
           [container |-> DummyContainers[k], num_items |-> 0, sequence |-> sequence])),
         sequence + 1, k + 1)

\* a faulty variant: the untracked containers are numbered from the last
\* stored container's sequence
send_inventory_FromLast(c, first_update) ==
  LET inventory == c.player_data.inventory
      c1 == send_containers(c, inventory, 1, first_update)
      last_sequence == IF Len(inventory) = 0 THEN 0 ELSE Len(inventory) - 1
  IN  send_dummy_containers(c1, last_sequence, 1)

\* ZoneConnection::send_inventory
send_inventory(c, first_update) ==
  LET inventory == c.player_data.inventory
      c1 == send_containers(c, inventory, 1, first_update)
      last_sequence == IF Len(inventory) = 0 THEN 0 ELSE Len(inventory) - 1
  IN  send_dummy_containers(c1, last_sequence + 1, 1)

(***************************************************************************)
(* Logout and status effects.                                              *)
(***************************************************************************)
\* slots of a StatusEffectList segment
StatusEffectSlots == 30

\* a faulty variant: the acknowledgment is sent before the commit
begin_log_out_AckFirst(c) ==
  LET c1 == [c EXCEPT !.gracefully_logged_out = TRUE]
      c2 == send_segment(c1, IpcSelf(c1, "LogOutComplete", [unk |-> 0]))
  IN  [c2 EXCEPT !.database = Some(c2.player_data),
                 !.out = Append(@, [fx |-> "commit", player_data |-> c2.player_data])]

\* ZoneConnection::begin_log_out
begin_log_out(c) ==
  LET c1 == [c EXCEPT !.gracefully_logged_out = TRUE]
      \* write the player back to the database
      c2 == [c1 EXCEPT !.database = Some(c1.player_data),
                       !.out = Append(@, [fx |-> "commit", player_data |-> c1.player_data])]
  IN  \* tell the client we're ready to disconnect at any moment
      send_segment(c2, IpcSelf(c2, "LogOutComplete", [unk |-> 0]))

\* StatusEffect::default()
StatusEffect_default == [effect_id |-> 0, duration |-> 0]

\* a faulty variant: the dirty flag is left set after the send
effects_sent_StaysDirty(c) == c

\* the end of the dirty branch of process_effects_list
effects_sent(c) == [c EXCEPT !.status_effects.dirty = FALSE]

\* ZoneConnection::process_effects_list
process_effects_list(c) ==
  IF c.status_effects.dirty
    THEN IF Len(c.status_effects.status_effects) > StatusEffectSlots \/ exp_index_panics(c)
           THEN Panic(c)
           ELSE LET effects == c.status_effects.status_effects
                    list == [i \in 1..StatusEffectSlots |->
                               IF i <= Len(effects) THEN effects[i]
                               ELSE StatusEffect_default]
                IN  effects_sent(send_segment(c, IpcSelf(c, "StatusEffectList",
                      [statues |-> list,
                       classjob_id |-> c.player_data.classjob_id,
                       level |-> current_level(c) % 256,
                       curr_hp |-> c.player_data.curr_hp,
                       max_hp |-> c.player_data.max_hp,
                       curr_mp |-> c.player_data.curr_mp,
                       max_mp |-> c.player_data.max_mp])))
    ELSE c

(***************************************************************************)
(* Tasks of the Lua task queue (the arms of process_lua_player's match).   *)
(***************************************************************************)
\* the chat message of a failed item grant
ERR_INVENTORY_ADD_FAILED == "ERR_INVENTORY_ADD_FAILED"

\* one past the last aetheryte id of "unlock all"
UnlockAllEnd == 239

\* a faulty variant: turning a bit off clears it
aetheryte_bit_off_Clear(byte, value) == IF HasBit(byte, value) THEN byte - value ELSE byte

\* `aetherytes[index] ^= value`
aetheryte_bit_off(byte, value) == BitXor(byte, value)

\* a faulty variant: turning a bit on toggles it
aetheryte_bit_on_Toggle(byte, value) == BitXor(byte, value)

\* `aetherytes[index] |= value`
aetheryte_bit_on(byte, value) == BitOr(byte, value)

\* one aetheryte of Task::UnlockAetheryte: the bit, then a LearnTeleport segment
unlock_one_aetheryte(c, id, on) ==
  LET value == value_to_flag_byte_index_value(id)[1]
      index == value_to_flag_byte_index_value(id)[2]
  IN  IF index >= AETHERYTE_UNLOCK_BITMASK_SIZE THEN Panic(c)
      ELSE actor_control_self(
             [c EXCEPT !.player_data.unlocks.aetherytes[index + 1] =
                IF on THEN aetheryte_bit_on(@, value) ELSE aetheryte_bit_off(@, value)],
             [category |-> "LearnTeleport", id |-> id, unlocked |-> on])

RECURSIVE unlock_all_aetherytes(_, _, _, _)
\* `for i in lo..hi` of Task::UnlockAetheryte, the ids taken in ascending order
\* (the range is walked by halves: first lo..mid, then mid..hi)
unlock_all_aetherytes(c, lo, hi, on) ==
  IF lo >= hi \/ c.crashed THEN c
  ELSE IF hi = lo + 1 THEN unlock_one_aetheryte(c, lo, on)
  ELSE LET mid == (lo + hi) \div 2
           first == unlock_all_aetherytes(c, lo, mid, on)
       IN  unlock_all_aetherytes(first, mid, hi, on)

\* a faulty variant: the bulk unlock walks the ids up to the bitmap's last bit
task_unlock_aetheryte_WholeBitmap(c, id, on) ==
  IF id = 0 THEN unlock_all_aetherytes(c, 1, UnlockAllEnd + 1, on)
  ELSE unlock_one_aetheryte(c, id, on)

\* Task::UnlockAetheryte
task_unlock_aetheryte(c, id, on) ==
  IF id = 0 THEN unlock_all_aetherytes(c, 1, UnlockAllEnd, on)
  ELSE unlock_one_aetheryte(c, id, on)

\* `currency.get_slot_mut(0).quantity = quantity`
set_gil(c, quantity) ==
  [c EXCEPT !.player_data.inventory[CurrencyIndex].slots[1].quantity = quantity]

gil(c) == c.player_data.inventory[CurrencyIndex].slots[1].quantity

\* a u32 `+=` / `-=` panics in a build with overflow checks and wraps otherwise
overflow_panics(c, result) == result.overflow /\ c.overflow_checks

\* Task::AddGil
task_add_gil(c, amount) ==
  LET result == Add32(gil(c), amount)
  IN  IF overflow_panics(c, result) THEN Panic(c)
      ELSE send_inventory(set_gil(c, result.value), FALSE)

\* Task::RemoveGil
task_remove_gil(c, amount, send_client_update) ==
  LET result == Sub32(gil(c), amount)
  IN  IF overflow_panics(c, result) THEN Panic(c)
      ELSE IF send_client_update THEN send_inventory(set_gil(c, result.value), FALSE)
      ELSE set_gil(c, result.value)

\* a faulty variant: a grant that found no free slot is reported by an
\* inventory update instead of a chat message
task_add_item_SyncOnFailure(c, id, quantity, send_client_update) ==
  LET item_info == get_item_info(id)
  IN  IF IsSome(item_info)
        THEN LET placed == add_in_next_free_slot(c.player_data.inventory,
                                                 Item_new(Unwrap(item_info), quantity))
                 c1 == IF IsSome(placed)
                         THEN [c EXCEPT !.player_data.inventory = Unwrap(placed)]
                         ELSE c
             IN  IF send_client_update THEN send_inventory(c1, FALSE) ELSE c1
        ELSE send_message(c, ERR_INVENTORY_ADD_FAILED)

\* Task::AddItem
task_add_item(c, id, quantity, send_client_update) ==
  LET item_info == get_item_info(id)
  IN  IF IsSome(item_info)
        THEN LET placed == add_in_next_free_slot(c.player_data.inventory,
                                                 Item_new(Unwrap(item_info), quantity))
             IN  IF IsSome(placed)
                   THEN LET c1 == [c EXCEPT !.player_data.inventory = Unwrap(placed)]
                        IN  IF send_client_update THEN send_inventory(c1, FALSE) ELSE c1
                   ELSE send_message(c, ERR_INVENTORY_ADD_FAILED)
        ELSE send_message(c, ERR_INVENTORY_ADD_FAILED)

\* Task::SetLevel
task_set_level(c, level) ==
  LET c1 == set_current_level(c, level)
  IN  IF c1.crashed THEN c1 ELSE update_class_info(c1)

\* Task::AddExp
task_add_exp(c, amount) ==
  IF exp_index_panics(c) THEN Panic(c)
  ELSE LET result == Add32(current_exp(c), amount)
       IN  IF overflow_panics(c, result) THEN Panic(c)
           ELSE update_class_info(set_current_exp(c, result.value))

\* ExtraLuaState::event_scripts: the events that have a script
event_scripts == [id \in { 1 } |-> "events/Warp.lua"]

\* ObjectTypeId::default()
ObjectTypeId_default == [object_id |-> 0, object_type |-> 0]

\* Event::new(id, path)
Event_new(id, path) == [id |-> id, file_name |-> path]

\* ZoneConnection::send_unk18: the segment that gives control back
send_unk18(c, unk) == send_segment(c, IpcSelf(c, "Unk18", [unk |-> unk]))

\* ZoneConnection::event_finish: the target is forgotten, EventFinish carries
\* the recorded event type, then send_unk18
event_finish(c, handler_id, arg, finish_type) ==
  LET c1 == [c EXCEPT !.player_data.target_actorid = ObjectTypeId_default]
      c2 == send_segment(c1, IpcSelf(c1, "EventFinish",
              [handler_id |-> handler_id, event |-> c1.event_type,
               result |-> 1, arg |-> arg]))
      unk == IF finish_type = "Normal"
               THEN [i \in 1..16 |-> 0]
               ELSE [i \in 1..16 |-> IF i = 5 THEN 1 ELSE 0]
  IN  send_unk18(c2, unk)

\* format!("Event {event_id} tried to start, but it doesn't have a script
\* associated with it!")
UnscriptedEventMessage(event_id) ==
  << "Event ", event_id,
     " tried to start, but it doesn't have a script associated with it!" >>

\* a faulty variant: an event without a script is left started
start_event_NeverCancels(c, actor_id, event_id, event_type, event_arg) ==
  LET c1 == [c EXCEPT !.player_data.target_actorid = actor_id,
                      !.event_type = event_type]
      c2 == send_segment(c1, IpcSelf(c1, "EventStart",
              [target_id |-> actor_id, event_id |-> event_id,
               event_type |-> event_type, event_arg |-> event_arg]))
  IN  IF event_id \in DOMAIN event_scripts
        THEN [c2 EXCEPT !.event = Some(Event_new(event_id, event_scripts[event_id]))]
        ELSE c2

\* ZoneConnection::start_event
start_event(c, actor_id, event_id, event_type, event_arg) ==
  LET c1 == [c EXCEPT !.player_data.target_actorid = actor_id,
                      !.event_type = event_type]
      c2 == send_segment(c1, IpcSelf(c1, "EventStart",
              [target_id |-> actor_id, event_id |-> event_id,
               event_type |-> event_type, event_arg |-> event_arg]))
  IN  IF event_id \in DOMAIN event_scripts
        THEN [c2 EXCEPT !.event = Some(Event_new(event_id, event_scripts[event_id]))]
        ELSE send_message(event_finish(c2, event_id, 0, "Normal"),
                          UnscriptedEventMessage(event_id))

\* one arm of the match in process_lua_player
apply_task(c, task, env) ==
  CASE task.name = "ChangeTerritory" -> change_zone(c, task.zone_id, env)
    [] task.name = "Warp" -> warp(c, task.warp_id, env)
    [] task.name = "BeginLogOut" -> begin_log_out(c)
    [] task.name = "SetClassJob" ->
         update_class_info([c EXCEPT !.player_data.classjob_id = task.classjob_id])
    [] task.name = "WarpAetheryte" -> warp_aetheryte(c, task.aetheryte_id, env)
    [] task.name = "ToggleInvisibility" -> toggle_invisibility(c, task.invisible)
    [] task.name = "UnlockAetheryte" -> task_unlock_aetheryte(c, task.id, task.on)
    [] task.name = "SetLevel" -> task_set_level(c, task.level)
    [] task.name = "ChangeWeather" -> change_weather(c, task.id)
    [] task.name = "AddGil" -> task_add_gil(c, task.amount)
    [] task.name = "RemoveGil" ->
         task_remove_gil(c, task.amount, task.send_client_update)
    [] task.name = "UnlockOrchestrion" ->
         IF task.id = 0 THEN c
         ELSE actor_control_self(c, [category |-> "ToggleOrchestrionUnlock",
                                     song_id |-> task.id, unlocked |-> task.on])
    [] task.name = "AddItem" ->
         task_add_item(c, task.id, task.quantity, task.send_client_update)
    [] task.name = "UnlockContent" ->
         actor_control_self(c, [category |-> "UnlockInstanceContent",
                                id |-> task.id, unlocked |-> TRUE])
    [] task.name = "UpdateBuyBackList" ->
         [c EXCEPT !.player_data.buyback_list = task.list]
    [] task.name = "AddExp" -> task_add_exp(c, task.amount)
    [] task.name = "SetInnWakeup" ->
         [c EXCEPT !.player_data.saw_inn_wakeup = task.watched]
    [] task.name = "FinishEvent" ->
         event_finish(c, task.handler_id, task.arg, task.finish_type)
    [] task.name = "StartEvent" ->
         start_event(c, task.actor_id, task.event_id, task.event_type, task.event_arg)

(***************************************************************************)
(* The packet writer (send_helpers.rs).                                    *)
(***************************************************************************)
\* std::mem::size_of::<PacketHeader>()
PacketHeaderSize == 40

\* bytes of a segment's own header (size, source, target, type, padding)
SegmentHeaderSize == 16

\* the encoded length of a segment: its header and its payload
segment_size(segment) == SegmentHeaderSize + segment.payload_size

RECURSIVE segments_size(_)
\* the length of the segment block before compression
segments_size(segments) ==
  IF segments = <<>> THEN 0
  ELSE segment_size(Head(segments)) + segments_size(Tail(segments))

\* compression::compress: the bytes to write and the size before compression.
\* Uncompressed writes the segment block as it is; the block compressor's output
\* is known only by its length, `compressed_len`
compress(compression_type, segments, compressed_len) ==
  IF compression_type = "Uncompressed"
    THEN << segments_size(segments), segments_size(segments) >>
    ELSE << compressed_len, segments_size(segments) >>

\* a faulty variant: the size field leaves the header out
packet_size_PayloadOnly(data_len) == data_len

\* `let size = std::mem::size_of::<PacketHeader>() + data.len();`
packet_size(data_len) == PacketHeaderSize + data_len

\* the packet send_packet writes: the header, whose encoding has the header's
\* fixed size, then `data` (by its length)
send_packet(connection_type, compression_type, segments, keys, compressed_len) ==
  LET data_len == compress(compression_type, segments, compressed_len)[1]
      uncompressed_size == compress(compression_type, segments, compressed_len)[2]
  IN  [header |-> [size |-> packet_size(data_len),
                   connection_type |-> connection_type,
                   segment_count |-> Len(segments) % 65536,
                   version |-> 0,
                   compression_type |-> compression_type,
                   unk4 |-> 0,
                   uncompressed_size |-> uncompressed_size],
       header_len |-> PacketHeaderSize,
       data_len |-> data_len,
       segments |-> segments,
       keys |-> keys]

\* a faulty variant: the answer is compressed like the session's other packets
send_keep_alive_Compressed(connection_type, id, timestamp) ==
  send_packet(connection_type, "Oodle",
              << [segment_type |-> "KeepAliveResponse", payload_size |-> 8,
                  data |-> [id |-> id, timestamp |-> timestamp]] >>,
              None, 1)

\* send_keep_alive: one KeepAliveResponse, uncompressed, with no keys
send_keep_alive(connection_type, id, timestamp) ==
  send_packet(connection_type, "Uncompressed",
              << [segment_type |-> "KeepAliveResponse", payload_size |-> 8,
                  data |-> [id |-> id, timestamp |-> timestamp]] >>,
              None, 1)

(***************************************************************************)
(* State.                                                                  *)
(***************************************************************************)
VARIABLES
  config,                 \* ZoneConnection::config (the session's WorldConfig)
  global_config,          \* what get_config().world returns
  overflow_checks,        \* whether the build panics on integer overflow
  player_data,            \* ZoneConnection::player_data
  zone,                   \* ZoneConnection::zone
  spawn_index,            \* ZoneConnection::spawn_index
  event,                  \* ZoneConnection::event
  event_type,             \* ZoneConnection::event_type
  actors,                 \* ZoneConnection::actors
  status_effects,         \* ZoneConnection::status_effects
  exit_position,          \* ZoneConnection::exit_position
  gracefully_logged_out,  \* ZoneConnection::gracefully_logged_out
  weather_id,             \* ZoneConnection::weather_id
  obsfucation_data,       \* ZoneConnection::obsfucation_data
  database,               \* the PlayerData last committed to the WorldDatabase
  crashed,                \* the session's task panicked
  queued_segments,        \* LuaPlayer::queued_segments
  zone_queued_segments,   \* LuaPlayer::zone_data.queued_segments
  queued_tasks,           \* LuaPlayer::queued_tasks
  pc,                     \* "idle", or "drain" inside process_lua_player
  tasks,                  \* process_lua_player's clone of the queue
  task_i,                 \* the next task of the clone
  drain_start,            \* player_data when the current drain began
  applied,                \* the tasks the current drain has applied, in order
  op,                     \* the handler step taken last
  fx,                     \* what that step emitted, in order
  wire,                   \* the packet send_packet wrote last
  lock_holder,            \* who holds the gamedata mutex and the lua mutex
  running,                \* per session: the steps left of its running operation
  suspended,              \* per session: whether it is suspended in an await
  probe                   \* the last evaluation of a pure function

vars == << config, global_config, overflow_checks, player_data, zone, status_effects,
           exit_position, gracefully_logged_out, weather_id, obsfucation_data,
           database, crashed, queued_segments, zone_queued_segments, queued_tasks,
           pc, tasks, task_i, drain_start, applied, op, fx, wire,
           spawn_index, event, event_type, actors,
           lock_holder, running, suspended, probe >>

session_vars == << player_data, zone, status_effects, exit_position,
                   gracefully_logged_out, weather_id, obsfucation_data, database,
                   crashed, spawn_index, event, event_type, actors >>

lock_vars == << lock_holder, running, suspended >>

build_vars == << config, global_config, overflow_checks >>

drain_vars == << pc, tasks, task_i, drain_start, applied >>

\* the session as a connection record, with nothing emitted yet
Conn ==
  [config |-> config, global_config |-> global_config,
   overflow_checks |-> overflow_checks, player_data |-> player_data,
   zone |-> zone, status_effects |-> status_effects,
   exit_position |-> exit_position,
   gracefully_logged_out |-> gracefully_logged_out, weather_id |-> weather_id,
   obsfucation_data |-> obsfucation_data, database |-> database,
   spawn_index |-> spawn_index, event |-> event, event_type |-> event_type,
   actors |-> actors,
   out |-> <<>>, crashed |-> FALSE]

\* the session becomes `c`; `c.out` is what the step emitted
Install(c) ==
  /\ player_data' = c.player_data
  /\ zone' = c.zone
  /\ status_effects' = c.status_effects
  /\ exit_position' = c.exit_position
  /\ gracefully_logged_out' = c.gracefully_logged_out
  /\ weather_id' = c.weather_id
  /\ obsfucation_data' = c.obsfucation_data
  /\ database' = c.database
  /\ crashed' = c.crashed
  /\ spawn_index' = c.spawn_index
  /\ event' = c.event
  /\ event_type' = c.event_type
  /\ actors' = c.actors
  /\ fx' = c.out

\* PlayerData as the session holds it after login
InitialPlayerData ==
  [actor_id |-> 1, classjob_id |-> 1,
   classjob_levels |-> [i \in 1..CLASSJOB_ARRAY_SIZE |-> 1],
   classjob_exp |-> [i \in 1..CLASSJOB_ARRAY_SIZE |-> U32(0)],
   curr_hp |-> 100, max_hp |-> 100, curr_mp |-> 10000, max_mp |-> 10000,
   zone_id |-> 0, inventory |-> DefaultInventory, gm_invisible |-> FALSE,
   item_sequence |-> 0, shop_sequence |-> 0, buyback_list |-> <<>>,
   unlocks |-> [aetherytes |-> [i \in 1..AETHERYTE_UNLOCK_BITMASK_SIZE |-> 0]],
   saw_inn_wakeup |-> FALSE,
   target_actorid |-> [object_id |-> 0, object_type |-> 0]]

Idle == [handler |-> "none", arg |-> None]

\* the sessions whose use of the shared locks is followed
Sessions == { 1, 2 }

Init ==
  /\ config \in [enable_packet_obsfucation : BOOLEAN, enable_packet_compression : BOOLEAN]
  /\ global_config = config
  /\ overflow_checks \in BOOLEAN
  /\ player_data = InitialPlayerData
  /\ zone = None
  /\ status_effects = [status_effects |-> <<>>, dirty |-> FALSE]
  /\ exit_position = None
  /\ gracefully_logged_out = FALSE
  /\ weather_id = 0
  /\ obsfucation_data = [keys |-> None, seed1 |-> 0, seed2 |-> 0, seed3 |-> U32(0)]
  /\ database = None
  /\ crashed = FALSE
  /\ queued_segments = <<>>
  /\ zone_queued_segments = <<>>
  /\ queued_tasks = <<>>
  /\ pc = "idle"
  /\ tasks = <<>>
  /\ task_i = 1
  /\ drain_start = InitialPlayerData
  /\ applied = <<>>
  /\ op = Idle
  /\ fx = <<>>
  /\ wire = None
  /\ spawn_index = 0
  /\ event = None
  /\ event_type = 0
  /\ actors = <<>>
  /\ lock_holder = [gamedata |-> 0, lua |-> 0]
  /\ running = [s \in Sessions |-> <<>>]
  /\ suspended = [s \in Sessions |-> FALSE]
  /\ probe = None

(***************************************************************************)
(* What the handlers draw from outside the session.                        *)
(***************************************************************************)
\* fastrand's seeds: the least, the greatest and one in between
SeedChoices ==
  { [seed1 |-> 0, seed2 |-> 0, seed3 |-> U32(0)],
    [seed1 |-> U8Max, seed2 |-> U8Max, seed3 |-> U32Max],
    [seed1 |-> 18, seed2 |-> 52, seed3 |-> << 4660, 22136 >>] }

\* calculate_target()'s values in the model
TargetChoices == { 10, 60 }

Envs ==
  { [seed1 |-> s.seed1, seed2 |-> s.seed2, seed3 |-> s.seed3, target |-> t] :
      s \in SeedChoices, t \in TargetChoices }

DefaultEnv == [seed1 |-> 0, seed2 |-> 0, seed3 |-> U32(0), target |-> 10]

\* the tasks that read the weather window and, with obfuscation on, draw seeds
EnvsOf(task) ==
  IF task.name \in { "ChangeTerritory", "Warp", "WarpAetheryte" }
    THEN IF config.enable_packet_obsfucation THEN Envs
         ELSE { e \in Envs : e.seed1 = 0 }
    ELSE { DefaultEnv }

\* the tasks scripts queue in the model, by area
ZoneTasks ==
  { [name |-> "ChangeTerritory", zone_id |-> 101] }
  \cup { [name |-> "Warp", warp_id |-> w] : w \in 1..3 }
  \cup { [name |-> "WarpAetheryte", aetheryte_id |-> a] : a \in 1..2 }

UnlockTasks ==
  { [name |-> "UnlockAetheryte", id |-> i, on |-> b] :
      i \in { 0, 1 }, b \in BOOLEAN }

ItemTasks ==
  { [name |-> "AddItem", id |-> i, quantity |-> U32(1), send_client_update |-> b] :
      i \in { 2, 9 }, b \in BOOLEAN }

MixedTasks ==
  { [name |-> "ChangeTerritory", zone_id |-> 100],
    [name |-> "Warp", warp_id |-> 3],
    [name |-> "WarpAetheryte", aetheryte_id |-> 3],
    [name |-> "BeginLogOut"],
    [name |-> "SetClassJob", classjob_id |-> 0] }

\* a segment a script queued for the client
ScriptSegment ==
  [segment_type |-> "Ipc", source_actor |-> 5, target_actor |-> 5,
   op_code |-> "ActorControl", data |-> [category |-> "Scripted"]]

(***************************************************************************)
(* Actions.  A session is one sequential task: a handler runs from its     *)
(* call to its return before the next one starts.  process_lua_player is   *)
(* taken in steps, one per task of the queue, so that what each task       *)
(* emitted and the state it left can be told apart; no other handler runs  *)
(* between the steps of a drain.                                           *)
(***************************************************************************)
\* a script (LuaPlayer's methods) queues a task
ScriptQueuesTask(T) ==
  /\ pc = "idle" /\ ~crashed
  /\ Len(queued_tasks) < MaxQueue
  /\ \E t \in T : queued_tasks' = Append(queued_tasks, t)
  /\ UNCHANGED << build_vars, lock_vars, probe, session_vars, drain_vars, queued_segments,
                  zone_queued_segments, op, fx, wire >>

\* a script queues a segment for the player, or for the zone
ScriptQueuesSegment ==
  /\ pc = "idle" /\ ~crashed
  /\ \/ /\ Len(queued_segments) < MaxQueuedSegments
        /\ queued_segments' = Append(queued_segments, ScriptSegment)
        /\ UNCHANGED zone_queued_segments
     \/ /\ Len(zone_queued_segments) < MaxQueuedSegments
        /\ zone_queued_segments' = Append(zone_queued_segments, ScriptSegment)
        /\ UNCHANGED queued_segments
  /\ UNCHANGED << build_vars, lock_vars, probe, session_vars, drain_vars, queued_tasks, op, fx, wire >>

RECURSIVE send_queued(_, _, _)
\* the two loops that open process_lua_player: the queued segments are sent as
\* they are (retarget = FALSE) or with the player as target_actor
send_queued(c, segments, retarget) ==
  IF segments = <<>> THEN c
  ELSE send_queued(
         send_segment(c, IF retarget
                           THEN [Head(segments) EXCEPT
                                   !.target_actor = c.player_data.actor_id]
                           ELSE Head(segments)),
         Tail(segments), retarget)

\* process_lua_player, up to `let tasks = player.queued_tasks.clone()`
ProcessLuaPlayer_Begin ==
  /\ pc = "idle" /\ ~crashed
  /\ Install(send_queued(send_queued(Conn, queued_segments, FALSE),
                         zone_queued_segments, TRUE))
  /\ queued_segments' = <<>>
  /\ zone_queued_segments' = <<>>
  /\ tasks' = queued_tasks
  /\ task_i' = 1
  /\ applied' = <<>>
  /\ drain_start' = player_data
  /\ pc' = "drain"
  /\ op' = [handler |-> "process_lua_player", arg |-> None]
  /\ UNCHANGED << build_vars, lock_vars, probe, queued_tasks, wire >>

\* process_lua_player: one turn of `for task in &tasks`
ProcessLuaPlayer_Task ==
  /\ pc = "drain" /\ ~crashed
  /\ task_i <= Len(tasks)
  /\ \E env \in EnvsOf(tasks[task_i]) :
       LET c == apply_task(Conn, tasks[task_i], env)
       IN  /\ Install(c)
           /\ task_i' = IF c.crashed THEN task_i ELSE task_i + 1
           /\ applied' = IF c.crashed THEN applied ELSE Append(applied, tasks[task_i])
  /\ op' = [handler |-> "task", arg |-> Some(tasks[task_i])]
  /\ UNCHANGED << build_vars, lock_vars, probe, queued_segments, zone_queued_segments, queued_tasks,
                  pc, tasks, drain_start, wire >>

\* process_lua_player: `player.queued_tasks.clear()` and the return, which
\* drops the clone of the queue
ProcessLuaPlayer_End ==
  /\ pc = "drain" /\ ~crashed
  /\ task_i > Len(tasks)
  /\ queued_tasks' = <<>>
  /\ pc' = "idle"
  /\ tasks' = <<>>
  /\ task_i' = 1
  /\ applied' = <<>>
  /\ drain_start' = player_data
  /\ op' = [handler |-> "process_lua_player_return", arg |-> None]
  /\ fx' = <<>>
  /\ UNCHANGED << build_vars, lock_vars, probe, session_vars, queued_segments, zone_queued_segments,
                  wire >>

\* the client reports the zone loaded: the player is spawned where
\* get_player_common_spawn puts it, and the caller, which owns the public
\* exit_position field, wipes it or leaves it
FinishLoading ==
  /\ pc = "idle" /\ ~crashed
  /\ IsSome(zone)
  /\ fx' = << [fx |-> "spawn", pos |-> spawn_position(exit_position)] >>
  /\ exit_position' \in { exit_position, None }
  /\ op' = [handler |-> "finish_loading", arg |-> None]
  /\ UNCHANGED << build_vars, lock_vars, probe, drain_vars, player_data, zone, status_effects,
                  spawn_index, event, event_type, actors,
                  gracefully_logged_out, weather_id, obsfucation_data, database,
                  crashed, queued_segments, zone_queued_segments, queued_tasks, wire >>

\* a caller synchronises the inventory
SendInventory ==
  /\ pc = "idle" /\ ~crashed
  /\ \E first_update \in BOOLEAN :
       /\ Install(send_inventory(Conn, first_update))
       /\ op' = [handler |-> "send_inventory",
                 arg |-> Some([first_update |-> first_update])]
  /\ UNCHANGED << build_vars, lock_vars, probe, drain_vars, queued_segments, zone_queued_segments,
                  queued_tasks, wire >>

\* effect ids and durations the world server hands out in the model
EffectIds == { 50, 51, 52 }

EffectDurations == { 10, 20 }

\* the world server tells the session it gained an effect (StatusEffects::add):
\* the effect's duration is set, the list marked dirty
GainEffect ==
  /\ pc = "idle" /\ ~crashed
  /\ \E id \in EffectIds, d \in EffectDurations :
       LET list == status_effects.status_effects
           at == { i \in DOMAIN list : list[i].effect_id = id }
       IN  /\ at # {} \/ Len(list) < MaxEffects
           /\ status_effects' =
                [status_effects |->
                   IF at # {}
                     THEN [i \in DOMAIN list |->
                             IF i \in at THEN [effect_id |-> id, duration |-> d]
                             ELSE list[i]]
                     ELSE Append(list, [effect_id |-> id, duration |-> d]),
                 dirty |-> TRUE]
  /\ op' = [handler |-> "gain_effect", arg |-> None]
  /\ fx' = <<>>
  /\ UNCHANGED << build_vars, lock_vars, probe, drain_vars, player_data, zone, exit_position,
                  spawn_index, event, event_type, actors,
                  gracefully_logged_out, weather_id, obsfucation_data, database,
                  crashed, queued_segments, zone_queued_segments, queued_tasks, wire >>

\* the session's tick synchronises the status effects
ProcessEffectsList ==
  /\ pc = "idle" /\ ~crashed
  /\ Install(process_effects_list(Conn))
  /\ op' = [handler |-> "process_effects_list", arg |-> None]
  /\ UNCHANGED << build_vars, lock_vars, probe, drain_vars, queued_segments, zone_queued_segments,
                  queued_tasks, wire >>

\* segments handed to send_packet in the model, by type and payload size
WireSegments ==
  { [segment_type |-> "KeepAliveResponse", payload_size |-> 8],
    [segment_type |-> "Ipc", payload_size |-> 32] }

SegmentLists == UNION { [1..n -> WireSegments] : n \in 0..MaxSegments }

\* send_packet writes a packet to the socket; a failed write is logged
SendPacket ==
  /\ ~crashed
  /\ \E connection_type \in { "None", "Zone", "Chat" },
        compression_type \in { "Uncompressed", "Oodle" },
        segments \in SegmentLists,
        compressed_len \in 1..MaxCompressedLen,
        written \in BOOLEAN :
       wire' = IF written
                 THEN Some(send_packet(connection_type, compression_type, segments,
                                       obsfucation_data.keys, compressed_len))
                 ELSE None
  /\ UNCHANGED << build_vars, lock_vars, probe, session_vars, drain_vars, queued_segments,
                  zone_queued_segments, queued_tasks, op, fx >>

(***************************************************************************)
(* Specifications: the whole session, and the session with the scripts     *)
(* and callers of one area.                                                *)
(***************************************************************************)
Drain == ProcessLuaPlayer_Begin \/ ProcessLuaPlayer_Task \/ ProcessLuaPlayer_End

NextZone == ScriptQueuesTask(ZoneTasks) \/ Drain \/ FinishLoading

NextUnlock == ScriptQueuesTask(UnlockTasks) \/ Drain

NextItems == ScriptQueuesTask(ItemTasks) \/ Drain \/ SendInventory

NextTasks == ScriptQueuesTask(MixedTasks) \/ ScriptQueuesSegment \/ Drain

NextEffects == GainEffect \/ ProcessEffectsList

NextPacket == SendPacket

SpecZone == Init /\ [][NextZone]_vars

SpecUnlock == Init /\ [][NextUnlock]_vars

SpecItems == Init /\ [][NextItems]_vars

SpecTasks == Init /\ [][NextTasks]_vars

SpecEffects == Init /\ [][NextEffects]_vars

SpecPacket == Init /\ [][NextPacket]_vars

(***************************************************************************)
(* What a handler emitted, read back from fx.                              *)
(***************************************************************************)
IsSegment(e) == e.fx = "segment"

\* the segments a handler sent, in order
SegmentsOf(out) ==
  LET sent == SelectSeq(out, IsSegment) IN [i \in DOMAIN sent |-> sent[i].segment]

\* a segment's kind: its IPC op code, or its segment type
KindOf(segment) ==
  IF segment.segment_type = "Ipc" THEN segment.op_code ELSE segment.segment_type

KindsOf(out) == LET s == SegmentsOf(out) IN [i \in DOMAIN s |-> KindOf(s[i])]

\* the segments of the given kinds among those a handler sent
OfKinds(out, kinds) ==
  LET s == SegmentsOf(out)
  IN  { i \in DOMAIN s : KindOf(s[i]) \in kinds }

\* the last handler was the task `name` and ran to its end
RanTask(name) ==
  /\ op.handler = "task" /\ ~crashed
  /\ Unwrap(op.arg).name = name

\* the zone a zone-changing task of the queue leads to
DestinationOf(task) ==
  CASE task.name = "ChangeTerritory" -> task.zone_id
    [] task.name = "Warp" -> Unwrap(get_warp(task.warp_id))[2]
    [] task.name = "WarpAetheryte" -> Unwrap(get_aetheryte(task.aetheryte_id))[2]

RanZoneChange ==
  /\ op.handler = "task" /\ ~crashed
  /\ Unwrap(op.arg).name \in { "ChangeTerritory", "Warp", "WarpAetheryte" }

ZoneChangeKinds ==
  << "PrepareZoning", "UpdateClassInfo", "Initialize", "InitZone", "ActorControlSelf" >>

(***************************************************************************)
(* C1: a zone change to zone Z sends, in this order and nothing else,      *)
(* PrepareZoning, UpdateClassInfo, Initialize, InitZone carrying           *)
(* territory_type Z, and ActorControlSelf SetItemLevel; the player's       *)
(* zone_id is Z afterwards.                                                *)
(***************************************************************************)
C1_ZoneChangeSequence ==
  RanZoneChange =>
    LET Z == DestinationOf(Unwrap(op.arg))
        s == SegmentsOf(fx)
    IN  /\ KindsOf(fx) = ZoneChangeKinds
        /\ s[1].data.target_zone = Z
        /\ s[4].data.territory_type = Z
        /\ s[5].data.category = "SetItemLevel"
        /\ player_data.zone_id = Z
        /\ Unwrap(zone).id = Z

\* a change from zone 100 to zone 101: the old zone is left, the new one entered
C1_Witness ==
  /\ RanTask("ChangeTerritory")
  /\ Unwrap(op.arg).zone_id = 101
  /\ fx[1].fx = "to_server" /\ fx[1].msg.zone_id = 100
  /\ player_data.zone_id = 101
  /\ Len(SegmentsOf(fx)) = 5

(***************************************************************************)
(* C2: the seeds InitZone carries are the bitwise complements (8, 8 and 32 *)
(* bits wide) of the seeds the session stores, and the session's keys are  *)
(* the ones derived from the stored seeds; seeds 0 and all-ones included.  *)
(* A value and its w-bit complement add up to 2^w - 1.                     *)
(***************************************************************************)
C2_InitZoneSeedsComplemented ==
  RanZoneChange =>
    \A i \in OfKinds(fx, { "InitZone" }) :
      LET data == SegmentsOf(fx)[i].data
          stored == obsfucation_data
      IN  /\ data.seed1 + stored.seed1 = 255
          /\ data.seed2 + stored.seed2 = 255
          /\ data.seed3[1] + stored.seed3[1] = 65535
          /\ data.seed3[2] + stored.seed3[2] = 65535
          /\ config.enable_packet_obsfucation =>
               stored.keys = Some(generate(stored.seed1, stored.seed2, stored.seed3))

\* obfuscation on, the all-ones seeds drawn: InitZone carries zeros
C2_Witness ==
  /\ RanZoneChange
  /\ config.enable_packet_obsfucation
  /\ obsfucation_data.seed1 = 255 /\ obsfucation_data.seed3 = << 65535, 65535 >>
  /\ \E i \in OfKinds(fx, { "InitZone" }) :
       /\ SegmentsOf(fx)[i].data.seed1 = 0
       /\ SegmentsOf(fx)[i].data.seed3 = << 0, 0 >>
       /\ SegmentsOf(fx)[i].data.obsfucation_mode = OBFUSCATION_ENABLED_MODE

(***************************************************************************)
(* C3: process_effects_list sends a StatusEffectList only when the list is *)
(* dirty, leaves it clean after every call, and so two calls with no       *)
(* change to the effects between them send at most one list.               *)
(***************************************************************************)
EffectListsIn(out) == Cardinality(OfKinds(out, { "StatusEffectList" }))

C3_EffectsListOnlyWhenDirty ==
  [][ op'.handler = "process_effects_list" =>
        /\ ~status_effects'.dirty
        /\ EffectListsIn(fx') = IF status_effects.dirty THEN 1 ELSE 0
        /\ op.handler = "process_effects_list" =>
             EffectListsIn(fx) + EffectListsIn(fx') <= 1 ]_vars

\* a call that found effects on the list and sent nothing: the call before it
\* had sent them
C3_Witness ==
  /\ op.handler = "process_effects_list"
  /\ fx = <<>>
  /\ Len(status_effects.status_effects) > 0
  /\ ~status_effects.dirty

(***************************************************************************)
(* C4: send_inventory(true) reports no slot whose quantity is 0 and every  *)
(* other slot once; send_inventory(false) reports every slot of every      *)
(* container once, empty or not.                                           *)
(***************************************************************************)
SlotKinds == { "CurrencyCrystalInfo", "UpdateItem" }

\* the slots of container k a report has to cover
SlotsToReport(k, first_update) ==
  LET slots == player_data.inventory[k].slots
  IN  { i \in DOMAIN slots : ~first_update \/ slots[i].quantity # U32(0) }

\* the segments that report a slot of container k
SlotReports(k) ==
  { i \in OfKinds(fx, SlotKinds) :
      SegmentsOf(fx)[i].data.container = player_data.inventory[k].container_type }

C4_InventorySkipsEmptyOnFirstUpdate ==
  (op.handler = "send_inventory" /\ ~crashed) =>
    LET first_update == Unwrap(op.arg).first_update
    IN  /\ \A k \in DOMAIN player_data.inventory :
             Cardinality(SlotReports(k)) = Cardinality(SlotsToReport(k, first_update))
        /\ first_update =>
             \A i \in OfKinds(fx, SlotKinds) :
               SegmentsOf(fx)[i].data.quantity # U32(0)

\* a first update of an inventory that holds a granted item next to an empty slot
C4_Witness ==
  /\ op.handler = "send_inventory" /\ ~crashed
  /\ Unwrap(op.arg).first_update
  /\ \E k \in DOMAIN player_data.inventory :
       /\ \E i \in DOMAIN player_data.inventory[k].slots :
            player_data.inventory[k].slots[i].quantity = U32(0)
       /\ SlotsToReport(k, TRUE) # {}
       /\ Cardinality(SlotReports(k)) = 1

(***************************************************************************)
(* C5: a drain of UnlockAetheryte{id, on: true} then UnlockAetheryte{id,   *)
(* on: false}.                                                             *)
(***************************************************************************)
\* the drain at hand was exactly the pair on/off for one id, and both ran
DrainedOnThenOff ==
  /\ pc = "drain" /\ ~crashed
  /\ Len(tasks) = 2 /\ applied = tasks
  /\ tasks[1].name = "UnlockAetheryte" /\ tasks[1].on
  /\ tasks[2].name = "UnlockAetheryte" /\ ~tasks[2].on
  /\ tasks[1].id = tasks[2].id

\* the aetheryte ids a task's id stands for: 0 is "all", ids 1..238
AddressedBy(id) == IF id = 0 THEN 1..(UnlockAllEnd - 1) ELSE { id }

\* bit n (from 0) of an unlock bitmap
BitOf(bitmap, n) == HasBit(bitmap[(n \div 8) + 1], Pow2(n % 8))

BitmapBits == 0..(AETHERYTE_UNLOCK_BITMASK_SIZE * 8 - 1)

\* C5 as stated: the bitmap after the pair equals the bitmap before it,
\* whatever the bitmap was
C5_OnThenOffRestoresBitmap ==
  DrainedOnThenOff =>
    player_data.unlocks.aetherytes = drain_start.unlocks.aetherytes

\* C5, amended: after the pair the addressed bits are clear and every other
\* bit is as before, so the bitmap is restored exactly when the addressed
\* bits were clear before the pair
C5_OnThenOffClearsAddressedBits ==
  DrainedOnThenOff =>
    /\ \A n \in BitmapBits :
         BitOf(player_data.unlocks.aetherytes, n) =
           IF n \in AddressedBy(tasks[1].id) THEN FALSE
           ELSE BitOf(drain_start.unlocks.aetherytes, n)
    /\ (\A n \in AddressedBy(tasks[1].id) : ~BitOf(drain_start.unlocks.aetherytes, n))
         => player_data.unlocks.aetherytes = drain_start.unlocks.aetherytes

\* the pair for aetheryte 1, drained when aetheryte 9 was unlocked and 1 was
\* not: the bitmap is back where it was
C5_Witness ==
  /\ DrainedOnThenOff
  /\ tasks[1].id = 1
  /\ BitOf(drain_start.unlocks.aetherytes, 9)
  /\ ~BitOf(drain_start.unlocks.aetherytes, 1)
  /\ player_data.unlocks.aetherytes = drain_start.unlocks.aetherytes

(***************************************************************************)
(* C6: an AddItem task whose item id has no row in the Item sheet sends    *)
(* exactly one segment, a ServerChatMessage carrying the failure text,     *)
(* sends nothing about the inventory, and leaves the inventory as it was,  *)
(* with send_client_update set or not.                                     *)
(***************************************************************************)
HasItemRow(id) ==
  \E p \in DOMAIN item_pages : \E i \in DOMAIN item_pages[p] :
    item_pages[p][i].row_id = id

\* this step is the drain's turn for a task named `name`
TaskStep(name) ==
  /\ pc = "drain" /\ task_i <= Len(tasks)
  /\ tasks[task_i].name = name
  /\ task_i' = task_i + 1

C6_AddItemWithoutRowOnlyComplains ==
  [][ (TaskStep("AddItem") /\ ~HasItemRow(tasks[task_i].id)) =>
        /\ KindsOf(fx') = << "ServerChatMessage" >>
        /\ SegmentsOf(fx')[1].data.message = ERR_INVENTORY_ADD_FAILED
        /\ Len(fx') = 1
        /\ player_data'.inventory = player_data.inventory
        /\ ~crashed' ]_vars

\* item 9, which has no row, was asked for with a client update
C6_Witness ==
  /\ RanTask("AddItem")
  /\ Unwrap(op.arg).id = 9 /\ ~HasItemRow(9)
  /\ Unwrap(op.arg).send_client_update
  /\ KindsOf(fx) = << "ServerChatMessage" >>

(***************************************************************************)
(* C7: a warp or aetheryte warp whose pop range is absent from the         *)
(* destination zone still runs the whole zone change to that zone, and the *)
(* exit position the transition uses is the origin, whatever warps came    *)
(* before.                                                                 *)
(***************************************************************************)
\* the pop range a warping task looks for
PopRangeOf(task) ==
  IF task.name = "Warp" THEN Unwrap(get_warp(task.warp_id))[1]
  ELSE Unwrap(get_aetheryte(task.aetheryte_id))[1]

\* the last handler was a warp that found its row but not its pop range
WarpedWithoutPopRange ==
  /\ RanZoneChange
  /\ Unwrap(op.arg).name \in { "Warp", "WarpAetheryte" }
  /\ \A object \in ZoneLayout(DestinationOf(Unwrap(op.arg))) :
       object.instance_id # PopRangeOf(Unwrap(op.arg))

C7_MissingPopRangeFallsBackToOrigin ==
  WarpedWithoutPopRange =>
    /\ KindsOf(fx) = ZoneChangeKinds
    /\ player_data.zone_id = DestinationOf(Unwrap(op.arg))
    /\ spawn_position(exit_position) = Origin

(***************************************************************************)
(* C8: process_lua_player applies every task of the queue exactly once, in *)
(* the order of the queue, and the queue is empty when the drain is over,  *)
(* whatever the earlier tasks of the drain did.                            *)
(***************************************************************************)
\* the loop over the tasks has stopped: it ran out of tasks, or the session's
\* task died inside one
LoopStopped == pc = "drain" /\ (crashed \/ task_i > Len(tasks))

\* process_lua_player is over: it returned, or it died
DrainOver == op.handler = "process_lua_player_return" \/ (pc = "drain" /\ crashed)

C8_DrainAppliesEveryTaskOnce ==
  /\ LoopStopped => applied = tasks
  /\ DrainOver => queued_tasks = <<>>

(***************************************************************************)
(* C9: begin_log_out commits the PlayerData to the database, marks the     *)
(* session gracefully logged out, and sends exactly one LogOutComplete,    *)
(* the commit first and the acknowledgment after it.                       *)
(***************************************************************************)
C9_LogOutCommitsThenAcknowledges ==
  RanTask("BeginLogOut") =>
    /\ gracefully_logged_out
    /\ database = Some(player_data)
    /\ Len(fx) = 2
    /\ fx[1] = [fx |-> "commit", player_data |-> player_data]
    /\ fx[2].fx = "segment"
    /\ KindsOf(fx) = << "LogOutComplete" >>

\* a logout after a zone change: the committed data names the new zone
C9_Witness ==
  /\ RanTask("BeginLogOut")
  /\ player_data.zone_id = 100
  /\ IsSome(database) /\ Unwrap(database).zone_id = 100
  /\ gracefully_logged_out

(***************************************************************************)
(* C10: in every packet send_packet writes, the header's size is the       *)
(* header's length plus the length of the payload written after it, its    *)
(* uncompressed_size is the length of the segment block before             *)
(* compression, its segment_count is the number of segments passed, and    *)
(* its version is 0.                                                       *)
(***************************************************************************)
RECURSIVE SumSeq(_)
SumSeq(q) == IF q = <<>> THEN 0 ELSE Head(q) + SumSeq(Tail(q))

\* the encoded length of the segments of a packet, one by one
EncodedLength(segments) ==
  SumSeq([i \in DOMAIN segments |-> SegmentHeaderSize + segments[i].payload_size])

C10_PacketHeaderAgreesWithPayload ==
  IsSome(wire) =>
    LET packet == Unwrap(wire)
    IN  /\ packet.header.size = packet.header_len + packet.data_len
        /\ packet.header.uncompressed_size = EncodedLength(packet.segments)
        /\ packet.header.segment_count = Len(packet.segments)
        /\ packet.header.version = 0
        /\ packet.header.compression_type = "Uncompressed" =>
             packet.data_len = EncodedLength(packet.segments)

\* a compressed packet of two segments: what is written is shorter than what
\* was encoded
C10_Witness ==
  /\ IsSome(wire)
  /\ Unwrap(wire).header.compression_type = "Oodle"
  /\ Unwrap(wire).header.segment_count = 2
  /\ Unwrap(wire).data_len < Unwrap(wire).header.uncompressed_size
  /\ Unwrap(wire).header.size = PacketHeaderSize + Unwrap(wire).data_len

(***************************************************************************)
(* Keep-alive.                                                             *)
(***************************************************************************)
\* ids and timestamps of the keep-alive requests of the model
KeepAliveIds == { 0, 7 }

KeepAliveTimestamps == { 0, 1700 }

\* the session's loop answers a keep-alive request, between two handlers
SendKeepAlive ==
  /\ pc = "idle" /\ ~crashed
  /\ \E connection_type \in { "None", "Zone", "Chat" },
        id \in KeepAliveIds, timestamp \in KeepAliveTimestamps, written \in BOOLEAN :
       /\ wire' = IF written THEN Some(send_keep_alive(connection_type, id, timestamp))
                  ELSE None
       /\ op' = [handler |-> "send_keep_alive",
                 arg |-> Some([connection_type |-> connection_type, id |-> id,
                               timestamp |-> timestamp, written |-> written])]
  /\ fx' = <<>>
  /\ UNCHANGED << build_vars, lock_vars, probe, session_vars, drain_vars, queued_segments,
                  zone_queued_segments, queued_tasks >>

\* the zone changes that give the session keys before a keep-alive arrives
KeepAliveTasks == { [name |-> "ChangeTerritory", zone_id |-> 100] }

NextKeepAlive == ScriptQueuesTask(KeepAliveTasks) \/ Drain \/ SendKeepAlive

SpecKeepAlive == Init /\ [][NextKeepAlive]_vars

(***************************************************************************)
(* C11: a keep-alive request is answered with one packet of one            *)
(* KeepAliveResponse segment carrying the request's id and timestamp, on   *)
(* the connection type given, uncompressed and with no keys whatever the   *)
(* session's compression and obfuscation settings are.                     *)
(***************************************************************************)
C11_KeepAliveMirrorsRequest ==
  (op.handler = "send_keep_alive" /\ Unwrap(op.arg).written) =>
    /\ IsSome(wire)
    /\ LET packet == Unwrap(wire)
           request == Unwrap(op.arg)
       IN  /\ Len(packet.segments) = 1
           /\ packet.header.segment_count = 1
           /\ packet.segments[1].segment_type = "KeepAliveResponse"
           /\ packet.segments[1].data.id = request.id
           /\ packet.segments[1].data.timestamp = request.timestamp
           /\ packet.header.connection_type = request.connection_type
           /\ packet.header.compression_type = "Uncompressed"
           /\ packet.keys = None

\* a request answered on the chat connection of a session that compresses its
\* packets and holds scrambler keys
C11_Witness ==
  /\ op.handler = "send_keep_alive" /\ Unwrap(op.arg).written
  /\ Unwrap(op.arg).connection_type = "Chat" /\ Unwrap(op.arg).id = 7
  /\ config.enable_packet_compression
  /\ IsSome(obsfucation_data.keys)
  /\ IsSome(wire) /\ Unwrap(wire).segments[1].data.id = 7


\* ---------------------------------------------------------------------------
\* Lock scopes: what each operation does with the two shared mutexes
\* ---------------------------------------------------------------------------

\* a faulty variant: the guard of the gamedata mutex lives until after the send
update_class_info_steps_LockAcrossSend == << "lock_gamedata", "send_segment", "unlock_gamedata" >>

\* update_class_info: the block that reads the levels holds the gamedata mutex,
\* the send follows the block
update_class_info_steps == << "lock_gamedata", "unlock_gamedata", "send_segment" >>

\* change_zone: LeftZone to the server, Zone::load in its own block, PrepareZoning,
\* update_class_info, Initialize, get_weather in its own block, InitZone, SetItemLevel
change_zone_steps ==
  << "to_server" >>
  \o << "lock_gamedata", "unlock_gamedata" >>
  \o << "send_segment" >>
  \o update_class_info_steps
  \o << "send_segment" >>
  \o << "lock_gamedata", "unlock_gamedata" >>
  \o << "send_segment" >>
  \o << "send_segment" >>

\* execute_action: the script runs in a block that holds the lua mutex; when it
\* built effects: UpdateHpMpTp if the target is in the roster, ActionResult,
\* one GainEffect to the server per status effect, EffectResult
execute_action_steps(scripted, has_target, num_effects) ==
  << "lock_lua", "unlock_lua" >>
  \o (IF scripted
        THEN (IF has_target THEN << "send_segment" >> ELSE <<>>)
             \o << "send_segment" >>
             \o [i \in 1..num_effects |-> "to_server"]
             \o << "send_segment" >>
        ELSE <<>>)

\* event_finish: EventFinish, then send_unk18
event_finish_steps == << "send_segment", "send_segment" >>

\* start_event: EventStart, the script lookup in a block that holds the lua
\* mutex, and for an unscripted event event_finish and a chat message
start_event_steps(scripted) ==
  << "send_segment" >>
  \o << "lock_lua", "unlock_lua" >>
  \o (IF scripted THEN <<>> ELSE event_finish_steps \o << "send_segment" >>)

\* the status effects one action script builds here
MaxActionEffects == 1

Operations ==
  { change_zone_steps, update_class_info_steps }
  \cup { execute_action_steps(scripted, has_target, n) :
           scripted \in BOOLEAN, has_target \in BOOLEAN, n \in 0..MaxActionEffects }
  \cup { start_event_steps(scripted) : scripted \in BOOLEAN }

MutexOf(step) ==
  IF step \in { "lock_gamedata", "unlock_gamedata" } THEN "gamedata" ELSE "lua"

\* a session starts one of the operations
BeginOperation(s) ==
  /\ running[s] = <<>>
  /\ ~suspended[s]
  /\ \E steps \in Operations : running' = [running EXCEPT ![s] = steps]
  /\ UNCHANGED << build_vars, session_vars, drain_vars, queued_segments,
                  zone_queued_segments, queued_tasks, op, fx, wire, probe,
                  lock_holder, suspended >>

\* Mutex::lock: the thread goes on only when nobody holds the mutex
Acquire(s) ==
  /\ running[s] # <<>>
  /\ ~suspended[s]
  /\ Head(running[s]) \in { "lock_gamedata", "lock_lua" }
  /\ lock_holder[MutexOf(Head(running[s]))] = 0
  /\ lock_holder' = [lock_holder EXCEPT ![MutexOf(Head(running[s]))] = s]
  /\ running' = [running EXCEPT ![s] = Tail(@)]
  /\ UNCHANGED << build_vars, session_vars, drain_vars, queued_segments,
                  zone_queued_segments, queued_tasks, op, fx, wire, probe,
                  suspended >>

\* the guard goes out of scope
Release(s) ==
  /\ running[s] # <<>>
  /\ ~suspended[s]
  /\ Head(running[s]) \in { "unlock_gamedata", "unlock_lua" }
  /\ lock_holder' = [lock_holder EXCEPT ![MutexOf(Head(running[s]))] = 0]
  /\ running' = [running EXCEPT ![s] = Tail(@)]
  /\ UNCHANGED << build_vars, session_vars, drain_vars, queued_segments,
                  zone_queued_segments, queued_tasks, op, fx, wire, probe,
                  suspended >>

\* an awaited send_segment or handle.send: the task yields
Suspend(s) ==
  /\ running[s] # <<>>
  /\ ~suspended[s]
  /\ Head(running[s]) \in { "send_segment", "to_server" }
  /\ suspended' = [suspended EXCEPT ![s] = TRUE]
  /\ running' = [running EXCEPT ![s] = Tail(@)]
  /\ UNCHANGED << build_vars, session_vars, drain_vars, queued_segments,
                  zone_queued_segments, queued_tasks, op, fx, wire, probe,
                  lock_holder >>

\* the send completes and the task is polled again
Resume(s) ==
  /\ suspended[s]
  /\ suspended' = [suspended EXCEPT ![s] = FALSE]
  /\ UNCHANGED << build_vars, session_vars, drain_vars, queued_segments,
                  zone_queued_segments, queued_tasks, op, fx, wire, probe,
                  lock_holder, running >>

NextLocks ==
  \E s \in Sessions :
    BeginOperation(s) \/ Acquire(s) \/ Release(s) \/ Suspend(s) \/ Resume(s)

SpecLocks == Init /\ [][NextLocks]_vars

Holds(s) == { m \in DOMAIN lock_holder : lock_holder[m] = s }

\* a session that wants a mutex and cannot have it
Blocked(s) ==
  /\ running[s] # <<>>
  /\ ~suspended[s]
  /\ Head(running[s]) \in { "lock_gamedata", "lock_lua" }
  /\ lock_holder[MutexOf(Head(running[s]))] # 0

\* C12: a session suspended in an awaited send_segment or an awaited message to
\* the server holds neither the gamedata mutex nor the lua mutex, and no
\* session waits for a mutex whose holder is suspended
C12_NoLockHeldWhileSuspended ==
  /\ \A s \in Sessions : suspended[s] => Holds(s) = {}
  /\ \A s \in Sessions :
       Blocked(s) => ~suspended[lock_holder[MutexOf(Head(running[s]))]]

\* one session is suspended in a send while the other holds the gamedata mutex
C12_Witness ==
  \E s, t \in Sessions :
    /\ suspended[s]
    /\ lock_holder.gamedata = t
    /\ t # s

(***************************************************************************)
(* C13: a Warp or WarpAetheryte task whose id has no row in the reference  *)
(* data leaves the session alive, starts no zone change, and the tasks     *)
(* after it in the drain are applied.                                      *)
(***************************************************************************)
\* the task asks for a warp or an aetheryte the sheets do not have
LacksRow(task) ==
  \/ task.name = "Warp" /\ ~IsSome(get_warp(task.warp_id))
  \/ task.name = "WarpAetheryte" /\ ~IsSome(get_aetheryte(task.aetheryte_id))

C13_MissingWarpRowIsRecoverable ==
  /\ (op.handler = "task" /\ LacksRow(Unwrap(op.arg))) =>
       /\ ~crashed
       /\ OfKinds(fx, { "PrepareZoning", "InitZone" }) = {}
  /\ (LoopStopped /\ \E i \in DOMAIN tasks : LacksRow(tasks[i])) =>
       applied = tasks

(***************************************************************************)
(* C14: the drain's turn for an AddItem task whose item has a row, taken   *)
(* while the inventory has no free slot, sends one ServerChatMessage and   *)
(* nothing else, leaves the inventory as it was, and moves on to the next  *)
(* task of the drain.                                                      *)
(***************************************************************************)
\* it is the drain's turn for a task named `name`
TaskTurn(name) ==
  /\ pc = "drain" /\ ~crashed
  /\ task_i <= Len(tasks)
  /\ tasks[task_i].name = name

\* every slot of the item page is taken
InventoryFull(inventory) ==
  \A i \in DOMAIN inventory[1].slots : inventory[1].slots[i].quantity # U32(0)

C14_AddItemToFullInventoryOnlyComplains ==
  [][ (TaskTurn("AddItem") /\ HasItemRow(tasks[task_i].id)
         /\ InventoryFull(player_data.inventory)) =>
        /\ Len(fx') = 1
        /\ KindsOf(fx') = << "ServerChatMessage" >>
        /\ SegmentsOf(fx')[1].data.message = ERR_INVENTORY_ADD_FAILED
        /\ player_data'.inventory = player_data.inventory
        /\ ~crashed'
        /\ task_i' = task_i + 1
        /\ applied' = Append(applied, tasks[task_i]) ]_vars

\* a drain of two grants of item 2 that began with the inventory full: both
\* were turned down and both count as applied
C14_Witness ==
  /\ pc = "drain" /\ ~crashed
  /\ Len(tasks) = 2 /\ applied = tasks
  /\ \A i \in DOMAIN tasks : tasks[i].name = "AddItem" /\ tasks[i].id = 2
  /\ tasks[2].send_client_update
  /\ InventoryFull(drain_start.inventory)
  /\ player_data.inventory = drain_start.inventory
  /\ KindsOf(fx) = << "ServerChatMessage" >>

\* ---------------------------------------------------------------------------
\* The actor roster
\* ---------------------------------------------------------------------------
MaxActors == 2

MaxSpawns == 2

\* the ids the world server reports; 1 is the player's own
ActorIds == { 1, 20 }

\* the world server tells the session an actor has appeared, while the roster
\* holds fewer than max_actors and fewer than max_spawns indexes were given out
SpawnActorWithin(max_actors, max_spawns) ==
  /\ pc = "idle" /\ ~crashed
  /\ Len(actors) < max_actors
  /\ spawn_index < max_spawns
  /\ \E id \in ActorIds :
       /\ Install(spawn_actor(Conn, [id |-> id, hp |-> 100, spawn_index |-> 0,
                                     zone_id |-> player_data.zone_id]))
       /\ op' = [handler |-> "spawn_actor", arg |-> Some([id |-> id])]
  /\ UNCHANGED << build_vars, lock_vars, probe, drain_vars, queued_segments,
                  zone_queued_segments, queued_tasks, wire >>

SpawnActor == SpawnActorWithin(MaxActors, MaxSpawns)

\* the world server tells the session an actor is gone
RemoveActor ==
  /\ pc = "idle" /\ ~crashed
  /\ \E id \in ActorIds :
       /\ Install(remove_actor(Conn, id))
       /\ op' = [handler |-> "remove_actor", arg |-> Some([id |-> id])]
  /\ UNCHANGED << build_vars, lock_vars, probe, drain_vars, queued_segments,
                  zone_queued_segments, queued_tasks, wire >>

ActorTasks ==
  { [name |-> "ChangeTerritory", zone_id |-> z] : z \in { 100, 101 } }

NextActors == ScriptQueuesTask(ActorTasks) \/ Drain \/ SpawnActor \/ RemoveActor

SpecActors == Init /\ [][NextActors]_vars

(***************************************************************************)
(* C15: whatever spawn_actor and remove_actor calls came before, no two    *)
(* entries of the roster have the same actor id.                           *)
(***************************************************************************)
C15_RosterUniqueByActorId ==
  \A i, j \in DOMAIN actors : actors[i].id = actors[j].id => i = j

(***************************************************************************)
(* C16: when a zone change has run to its end, the roster holds no actor   *)
(* that was spawned in the zone the player left.                           *)
(***************************************************************************)
\* the first task of a drain was a zone change out of a zone, and it ran to
\* its end: the zone the player left is the one the drain began in
LeftAZone ==
  /\ RanTask("ChangeTerritory")
  /\ pc = "drain" /\ task_i = 2
  /\ drain_start.zone_id # 0

C16_ZoneChangeEmptiesRoster ==
  LeftAZone =>
    \A i \in DOMAIN actors : actors[i].zone_id # drain_start.zone_id

\* ---------------------------------------------------------------------------
\* Events
\* ---------------------------------------------------------------------------
EventIds == { 1, 2 }

EventTypes == { 1, 7 }

EventTasks ==
  { [name |-> "StartEvent", actor_id |-> [object_id |-> 20, object_type |-> 0],
     event_id |-> id, event_type |-> type, event_arg |-> 0] :
      id \in EventIds, type \in EventTypes }
  \cup { [name |-> "FinishEvent", handler_id |-> 1, arg |-> 0, finish_type |-> f] :
           f \in { "Normal", "Jumping" } }

NextEvents == ScriptQueuesTask(EventTasks) \/ Drain

SpecEvents == Init /\ [][NextEvents]_vars

(***************************************************************************)
(* C17: start_event records the target actor and the event type and sends  *)
(* EventStart before anything else; for an event without a script the same *)
(* call goes on to send EventFinish for that event id with the recorded     *)
(* event type and a normal completion, the control-return segment and one   *)
(* chat message naming the event, so the EventStart of an unscripted event  *)
(* never stays without its EventFinish.                                     *)
(***************************************************************************)
C17_UnscriptedEventIsFinished ==
  RanTask("StartEvent") =>
    LET task == Unwrap(op.arg)
        sent == SegmentsOf(fx)
    IN  /\ event_type = task.event_type
        /\ KindOf(sent[1]) = "EventStart"
        /\ sent[1].data = [target_id |-> task.actor_id, event_id |-> task.event_id,
                           event_type |-> task.event_type,
                           event_arg |-> task.event_arg]
        /\ task.event_id \in DOMAIN event_scripts =>
             /\ KindsOf(fx) = << "EventStart" >>
             /\ player_data.target_actorid = task.actor_id
             /\ IsSome(event) /\ Unwrap(event).id = task.event_id
        /\ task.event_id \notin DOMAIN event_scripts =>
             /\ KindsOf(fx) = << "EventStart", "EventFinish", "Unk18",
                                 "ServerChatMessage" >>
             /\ sent[2].data = [handler_id |-> task.event_id,
                                event |-> task.event_type, result |-> 1, arg |-> 0]
             /\ sent[3].data.unk = [i \in 1..16 |-> 0]
             /\ sent[4].data.message = UnscriptedEventMessage(task.event_id)
             /\ player_data.target_actorid = ObjectTypeId_default

\* event 2, which has no script, was started with event type 7
C17_Witness ==
  /\ RanTask("StartEvent")
  /\ Unwrap(op.arg).event_id = 2 /\ 2 \notin DOMAIN event_scripts
  /\ Unwrap(op.arg).event_type = 7
  /\ Len(fx) = 4
  /\ KindOf(SegmentsOf(fx)[2]) = "EventFinish"

\* ---------------------------------------------------------------------------
\* Weather
\* ---------------------------------------------------------------------------
RECURSIVE Xor(_, _)
\* a ^ b
Xor(a, b) ==
  IF a = 0 THEN b
  ELSE IF b = 0 THEN a
  ELSE ((a + b) % 2) + 2 * Xor(a \div 2, b \div 2)

\* a faulty variant: the window is shifted by the weather the session shows
calculate_target_OfSession(timestamp) == (weather_id * 50 + timestamp) % 100

\* GameData::calculate_target, with timestamp_secs() as `timestamp`: the
\* Eorzean time is the timestamp divided by 1440/70 and truncated; the shifts
\* and xors are u32 operations, done here on the high and low 16 bits
calculate_target(timestamp) ==
  LET unix == (timestamp * 70) \div 1440
      bell == unix \div 175
      increment == (bell + 8 - (bell % 8)) % 24
      total_days == unix \div 4200
      calc_base == total_days * 100 + increment
      \* calc_base << 0xB, cut to 32 bits
      shifted == << (calc_base \div 32) % 65536, (calc_base % 32) * 2048 >>
      step1 == << Xor(shifted[1], calc_base \div 65536),
                  Xor(shifted[2], calc_base % 65536) >>
      \* step1 >> 8
      shifted1 == << step1[1] \div 256, (step1[1] % 256) * 256 + (step1[2] \div 256) >>
      step2 == << Xor(shifted1[1], step1[1]), Xor(shifted1[2], step1[2]) >>
  IN  ((step2[1] % 100) * 36 + (step2[2] % 100)) % 100

\* the clock readings of the model
Timestamps == { 0, 28800 }

\* the zones whose weather is asked for; 101 has no TerritoryType row
WeatherZones == { 100, 101 }

\* how many resolutions are remembered
MaxResolutions == 2

\* some caller resolves the weather of a zone while the clock shows `timestamp`
ResolveWeather ==
  /\ ~crashed
  /\ \E zone_id \in WeatherZones, timestamp \in Timestamps :
       LET resolution == [zone_id |-> zone_id, timestamp |-> timestamp,
                          weather |-> get_weather(zone_id, calculate_target(timestamp))]
           earlier == IF probe = None THEN <<>> ELSE probe
       IN  probe' = IF Len(earlier) < MaxResolutions
                      THEN Append(earlier, resolution)
                      ELSE Append(Tail(earlier), resolution)
  /\ op' = [handler |-> "get_weather", arg |-> None]
  /\ UNCHANGED << build_vars, lock_vars, session_vars, drain_vars, queued_segments,
                  zone_queued_segments, queued_tasks, fx, wire >>

WeatherTasks ==
  { [name |-> "ChangeTerritory", zone_id |-> 100],
    [name |-> "ChangeWeather", id |-> 1] }

NextWeather == ScriptQueuesTask(WeatherTasks) \/ Drain \/ ResolveWeather

SpecWeather == Init /\ [][NextWeather]_vars

CHAR_NAME_MAX_LENGTH == 32

\* PlayerEntry::SIZE
PlayerEntry_SIZE == 112

\* #[br(count = 10)] and 10 * PlayerEntry::SIZE
SocialListSlots == 10

Zeros(n) == [i \in 1..n |-> 0]

RECURSIVE LittleEndian(_, _)
\* an unsigned integer as n bytes, low byte first
LittleEndian(v, n) ==
  IF n = 0 THEN <<>> ELSE << v % 256 >> \o LittleEndian(v \div 256, n - 1)

RECURSIVE FromLittleEndian(_)
FromLittleEndian(bytes) ==
  IF bytes = <<>> THEN 0 ELSE Head(bytes) + 256 * FromLittleEndian(Tail(bytes))

\* #[bw(pad_size_to = n)]: zeros are added up to n bytes, nothing is cut
pad_size_to(bytes, n) ==
  IF Len(bytes) < n THEN bytes \o Zeros(n - Len(bytes)) ELSE bytes

\* write_string: the bytes of the string
write_string(string) == string

RECURSIVE read_string(_)
\* read_string: the bytes up to the first NUL
read_string(bytes) ==
  IF bytes = <<>> \/ Head(bytes) = 0 THEN <<>>
  ELSE << Head(bytes) >> \o read_string(Tail(bytes))

\* bytes a+1 .. a+n
Slice(bytes, a, n) == SubSeq(bytes, a + 1, a + n)

\* the binrw writer of PlayerEntry
PlayerEntry_write(e) ==
  LittleEndian(e.content_id, 8) \o e.unk
  \o LittleEndian(e.zone_id, 2) \o LittleEndian(e.zone_id1, 2)
  \o e.unk2 \o LittleEndian(e.online_status_mask, 8) \o e.unk3
  \o LittleEndian(e.world_id, 2)
  \o pad_size_to(write_string(e.name), CHAR_NAME_MAX_LENGTH)
  \o pad_size_to(write_string(e.fc_tag), 6)
  \o Zeros(6)

\* the binrw reader of PlayerEntry
PlayerEntry_read(bytes) ==
  [content_id |-> FromLittleEndian(Slice(bytes, 0, 8)),
   unk |-> Slice(bytes, 8, 16),
   zone_id |-> FromLittleEndian(Slice(bytes, 24, 2)),
   zone_id1 |-> FromLittleEndian(Slice(bytes, 26, 2)),
   unk2 |-> Slice(bytes, 28, 8),
   online_status_mask |-> FromLittleEndian(Slice(bytes, 36, 8)),
   unk3 |-> Slice(bytes, 44, 22),
   world_id |-> FromLittleEndian(Slice(bytes, 66, 2)),
   name |-> read_string(Slice(bytes, 68, CHAR_NAME_MAX_LENGTH)),
   fc_tag |-> read_string(Slice(bytes, 68 + CHAR_NAME_MAX_LENGTH, 6))]

\* #[brw(repr = u8)] of SocialListRequestType
SocialListRequestType_repr(request_type) ==
  IF request_type = "Party" THEN 1 ELSE 2

SocialListRequestType_read(byte) ==
  CASE byte = 1 -> Some("Party")
    [] byte = 2 -> Some("Friends")
    [] OTHER -> None

RECURSIVE write_entries(_)
write_entries(entries) ==
  IF entries = <<>> THEN <<>>
  ELSE PlayerEntry_write(Head(entries)) \o write_entries(Tail(entries))

\* the binrw writer of SocialList: the entries there are, padded with zeros to
\* the size of ten
SocialList_write(list) ==
  Zeros(12)
  \o << SocialListRequestType_repr(list.request_type) >>
  \o << list.sequence >>
  \o Zeros(2)
  \o pad_size_to(write_entries(list.entries), SocialListSlots * PlayerEntry_SIZE)

\* the binrw reader of SocialList: ten entries, always
SocialList_read(bytes) ==
  IF Len(bytes) < 16 + SocialListSlots * PlayerEntry_SIZE THEN None
  ELSE LET request_type == SocialListRequestType_read(bytes[13])
       IN  IF ~IsSome(request_type) THEN None
           ELSE Some([request_type |-> Unwrap(request_type),
                      sequence |-> bytes[14],
                      entries |-> [k \in 1..SocialListSlots |->
                                     PlayerEntry_read(
                                       Slice(bytes, 16 + (k - 1) * PlayerEntry_SIZE,
                                             PlayerEntry_SIZE))]])

\* the players a list can name in the model
PlayerEntries ==
  << [content_id |-> 1001, unk |-> Zeros(16), zone_id |-> 100, zone_id1 |-> 100,
      unk2 |-> Zeros(8), online_status_mask |-> 1, unk3 |-> Zeros(22),
      world_id |-> 63, name |-> << 65, 108 >>, fc_tag |-> <<>>],
     [content_id |-> 1002, unk |-> Zeros(16), zone_id |-> 101, zone_id1 |-> 0,
      unk2 |-> Zeros(8), online_status_mask |-> 0, unk3 |-> Zeros(22),
      world_id |-> 63, name |-> << 66, 111, 98 >>, fc_tag |-> << 70, 67 >>] >>

\* the lists of 0 to 10 entries: the two players in turn, either one first
SocialLists ==
  { [request_type |-> t, sequence |-> s,
     entries |-> [k \in 1..n |-> PlayerEntries[((k + first) % 2) + 1]]] :
      t \in { "Party", "Friends" }, s \in { 0, 7 },
      n \in 0..SocialListSlots, first \in { 0, 1 } }

\* a session builds a SocialList to send
BuildSocialList ==
  /\ ~crashed
  /\ IF probe = None THEN TRUE ELSE Head(probe).stage = "decoded"
  /\ \E list \in SocialLists :
       probe' = << [stage |-> "built", value |-> list, bytes |-> <<>>,
                    decoded |-> None] >>
  /\ op' = [handler |-> "SocialList", arg |-> None]
  /\ UNCHANGED << build_vars, lock_vars, session_vars, drain_vars, queued_segments,
                  zone_queued_segments, queued_tasks, fx, wire >>

\* the list is written
WriteSocialList ==
  /\ IF probe = None THEN FALSE ELSE Head(probe).stage = "built"
  /\ probe' = << [Head(probe) EXCEPT !.stage = "written",
                                     !.bytes = SocialList_write(Head(probe).value)] >>
  /\ op' = [handler |-> "SocialList::write", arg |-> None]
  /\ UNCHANGED << build_vars, lock_vars, session_vars, drain_vars, queued_segments,
                  zone_queued_segments, queued_tasks, fx, wire >>

\* and read back
ReadSocialList ==
  /\ IF probe = None THEN FALSE ELSE Head(probe).stage = "written"
  /\ probe' = << [Head(probe) EXCEPT !.stage = "decoded",
                                     !.decoded = SocialList_read(Head(probe).bytes)] >>
  /\ op' = [handler |-> "SocialList::read", arg |-> None]
  /\ UNCHANGED << build_vars, lock_vars, session_vars, drain_vars, queued_segments,
                  zone_queued_segments, queued_tasks, fx, wire >>

NextSocialList == BuildSocialList \/ WriteSocialList \/ ReadSocialList

SpecSocialList == Init /\ [][NextSocialList]_vars

(***************************************************************************)
(* C19: a SocialList of 0 to 10 entries that is written and read back is    *)
(* the list that was written: the same request type, sequence and entries,  *)
(* as many as there were.                                                   *)
(***************************************************************************)
C19_SocialListRoundTrip ==
  (probe # None /\ Head(probe).stage = "decoded") =>
    Head(probe).decoded = Some(Head(probe).value)

\* what does hold: the entries written come first among the ten read, and a
\* list of ten comes back as it was
SocialListReadBackPadded ==
  (probe # None /\ Head(probe).stage = "decoded") =>
    LET value == Head(probe).value
        decoded == Unwrap(Head(probe).decoded)
    IN  /\ IsSome(Head(probe).decoded)
        /\ decoded.request_type = value.request_type
        /\ decoded.sequence = value.sequence
        /\ Len(decoded.entries) = SocialListSlots
        /\ SubSeq(decoded.entries, 1, Len(value.entries)) = value.entries
        /\ \A k \in (Len(value.entries) + 1)..SocialListSlots :
             decoded.entries[k] = PlayerEntry_read(Zeros(PlayerEntry_SIZE))

(***************************************************************************)
(* C20: with packet obfuscation configured, a zone change puts newly drawn  *)
(* seeds and the keys generated from them in the place of the session's     *)
(* old ones between UpdateClassInfo and Initialize: PrepareZoning and       *)
(* UpdateClassInfo go out with the keys the session had, Initialize,        *)
(* InitZone and SetItemLevel with the new ones, and when the seeds drawn    *)
(* differ from the old ones no segment from Initialize on carries the old   *)
(* keys.                                                                    *)
(***************************************************************************)
\* the segments a handler sent, each with the way it was sent
SentOf(out) == SelectSeq(out, IsSegment)

\* the seeds of a key bundle
SeedsOf(data) == << data.seed1, data.seed2, data.seed3 >>

\* it is the drain's turn for a task that changes zone, and the task runs to
\* its end
ZoneChangeTurn ==
  /\ pc = "drain" /\ ~crashed
  /\ task_i <= Len(tasks)
  /\ tasks[task_i].name \in { "ChangeTerritory", "Warp", "WarpAetheryte" }
  /\ ~crashed'

C20_ZoneChangeRegeneratesKeys ==
  [][ (ZoneChangeTurn /\ config.enable_packet_obsfucation) =>
        LET sent == SentOf(fx')
        IN  /\ KindsOf(fx') = ZoneChangeKinds
            /\ obsfucation_data'.keys =
                 Some(generate(obsfucation_data'.seed1, obsfucation_data'.seed2,
                               obsfucation_data'.seed3))
            /\ \A i \in 1..2 : sent[i].keys = obsfucation_data.keys
            /\ \A i \in 3..5 : sent[i].keys = obsfucation_data'.keys
            /\ SeedsOf(obsfucation_data') # SeedsOf(obsfucation_data) =>
                 \A i \in 3..5 : sent[i].keys # obsfucation_data.keys ]_vars

\* a second zone change of a session with obfuscation on: the first two
\* segments went out with the keys of the zone before, the rest with others
C20_Witness ==
  /\ RanZoneChange
  /\ config.enable_packet_obsfucation
  /\ Len(SentOf(fx)) = 5
  /\ IsSome(SentOf(fx)[1].keys)
  /\ SentOf(fx)[2].keys = SentOf(fx)[1].keys
  /\ SentOf(fx)[3].keys # SentOf(fx)[1].keys
  /\ SentOf(fx)[3].keys = obsfucation_data.keys
  /\ SentOf(fx)[5].keys = obsfucation_data.keys

\* ---------------------------------------------------------------------------
\* Spawn indexes over a long session
\* ---------------------------------------------------------------------------
\* one actor at a time on the roster, spawned and removed as often as the u8
\* counter can count and once more
NextSpawnIndex == SpawnActorWithin(1, U8Max + 1) \/ RemoveActor

SpecSpawnIndex == Init /\ [][NextSpawnIndex]_vars

\* this step is a spawn_actor call for an actor other than the player
SpawnStep ==
  /\ pc = "idle" /\ ~crashed
  /\ op'.handler = "spawn_actor"
  /\ fx' # <<>> \/ crashed'
  /\ Unwrap(op'.arg).id # player_data.actor_id

(***************************************************************************)
(* C21: every spawn_actor call of a session, however many came before,     *)
(* gives the actor a spawn index above every index given out earlier, the  *)
(* first being 1: no index comes back, freed or not.                       *)
(***************************************************************************)
C21_SpawnIndexStrictlyIncreases ==
  [][ SpawnStep =>
        /\ ~crashed'
        /\ spawn_index' > spawn_index
        /\ (spawn_index = 0 => spawn_index' = 1)
        /\ Len(actors') = Len(actors) + 1
        /\ actors'[Len(actors')].spawn_index = spawn_index'
        /\ \A i \in DOMAIN actors : actors[i].spawn_index < spawn_index' ]_vars

(***************************************************************************)
(* C22: remove_actor for an actor on the roster sends one Delete carrying   *)
(* the spawn index the actor got when it was spawned, and the actor is off  *)
(* the roster afterwards, the other entries staying as they were and in     *)
(* their order; for an id the roster does not have it sends nothing and     *)
(* leaves the roster as it was.                                             *)
(***************************************************************************)
\* this step is a remove_actor call
RemoveStep ==
  /\ pc = "idle" /\ ~crashed
  /\ op'.handler = "remove_actor"
  /\ pc' = "idle" /\ queued_tasks' = queued_tasks

RECURSIVE RosterWithout(_, _)
\* the roster's entries for other actors than `id`, in their order
RosterWithout(roster, id) ==
  IF roster = <<>> THEN <<>>
  ELSE (IF Head(roster).id = id THEN <<>> ELSE << Head(roster) >>)
       \o RosterWithout(Tail(roster), id)

C22_RemoveActorDeletesBySpawnIndex ==
  [][ RemoveStep =>
        LET id == Unwrap(op'.arg).id
        IN  IF \E i \in DOMAIN actors : actors[i].id = id
              THEN /\ Len(fx') = 1
                   /\ KindsOf(fx') = << "Delete" >>
                   /\ SegmentsOf(fx')[1].data.actor_id = id
                   /\ \A i \in DOMAIN actors :
                        actors[i].id = id =>
                          SegmentsOf(fx')[1].data.spawn_index = actors[i].spawn_index
                   /\ actors' = RosterWithout(actors, id)
              ELSE fx' = <<>> /\ actors' = actors ]_vars

\* what does hold: the first entry with the id is the one reported and taken
\* off, whatever else the roster holds
RemoveActorTakesFirstEntry ==
  [][ RemoveStep =>
        LET id == Unwrap(op'.arg).id
            found == get_actor(Conn, id)
        IN  IF IsSome(found)
              THEN /\ Len(fx') = 1
                   /\ KindsOf(fx') = << "Delete" >>
                   /\ SegmentsOf(fx')[1].data =
                        [spawn_index |-> actors[Unwrap(found)].spawn_index,
                         actor_id |-> id]
                   /\ actors' = SubSeq(actors, 1, Unwrap(found) - 1)
                                  \o SubSeq(actors, Unwrap(found) + 1, Len(actors))
              ELSE fx' = <<>> /\ actors' = actors ]_vars

\* ---------------------------------------------------------------------------
\* Actions (execute_action)
\* ---------------------------------------------------------------------------
\* ExtraLuaState::action_scripts: the actions that have a script
action_scripts == [key \in { 7 } |-> "actions/Attack.lua"]

\* `[ActionEffect::default(); 8]`
ActionEffectSlots == 8

\* `[EffectEntry::default(); 4]`
EffectEntrySlots == 4

INVALID_OBJECT_ID == -1

\* a faulty variant: every action key is taken to have a script
run_action_script_Always(action_key, effects) == Some(effects)

\* the block that runs the action's script: the EffectsBuilder doAction
\* returns, or nothing when the key has no script ("isn't scripted yet!")
run_action_script(action_key, effects) ==
  IF action_key \in DOMAIN action_scripts THEN Some(effects) ELSE None

\* ZoneConnection::update_hp_mp
update_hp_mp(c, actor_id, hp, mp) ==
  send_segment(c, [segment_type |-> "Ipc", source_actor |-> actor_id,
                   target_actor |-> c.player_data.actor_id,
                   op_code |-> "UpdateHpMpTp",
                   data |-> [hp |-> hp, mp |-> mp, unk |-> 0]])

RECURSIVE apply_effects(_, _, _)
\* the loop over the effects for a target on the roster (entry `i`): Damage is
\* taken off the cached hp with saturating_sub, any other kind is `todo!()`
apply_effects(c, i, effects) ==
  IF effects = <<>> THEN c
  ELSE IF Head(effects).kind = "Damage"
    THEN apply_effects(
           [c EXCEPT !.actors[i].hp =
              IF @ > Head(effects).amount THEN @ - Head(effects).amount ELSE 0],
           i, Tail(effects))
    ELSE Panic(c)

IsStatusEffect(effect) == effect.kind = "Unk1"

RECURSIVE send_gain_effects(_, _)
\* handle.send(ToServer::GainEffect(..)) for each status effect, in order
send_gain_effects(c, statuses) ==
  IF statuses = <<>> THEN c
  ELSE send_gain_effects(
         handle_send(c, [name |-> "GainEffect",
                         actor_id |-> c.player_data.actor_id,
                         effect_id |-> Head(statuses).effect_id,
                         duration |-> Head(statuses).duration,
                         param |-> Head(statuses).param,
                         source_actor_id |-> Head(statuses).source_actor_id]),
         Tail(statuses))

\* the entries of EffectResult: one per status effect, numbered from 0
EffectEntries(statuses) ==
  [k \in 1..EffectEntrySlots |->
     IF k <= Len(statuses)
       THEN [index |-> k - 1, unk1 |-> 0, id |-> statuses[k].effect_id,
             param |-> statuses[k].param, unk2 |-> 0,
             duration |-> statuses[k].duration,
             source_actor_id |-> INVALID_OBJECT_ID]
       ELSE [index |-> 0, unk1 |-> 0, id |-> 0, param |-> 0, unk2 |-> 0,
             duration |-> 0, source_actor_id |-> 0]]

\* ZoneConnection::execute_action, with what the script returns as `effects`
execute_action(c, request, effects) ==
  LET effects_builder == run_action_script(request.action_key, effects)
  IN  IF ~IsSome(effects_builder) THEN c
      ELSE
        LET built == Unwrap(effects_builder)
            found == get_actor(c, request.target.object_id)
            \* tell them the action results
            c1 == IF IsSome(found) THEN apply_effects(c, Unwrap(found), built) ELSE c
            c2 == IF IsSome(found) /\ ~c1.crashed
                    THEN update_hp_mp(c1, c1.actors[Unwrap(found)].id,
                                      c1.actors[Unwrap(found)].hp, 10000)
                    ELSE c1
            \* ActionResult: effects[..len].copy_from_slice(..) on 8 slots
            c3 == IF c2.crashed THEN c2
                  ELSE IF Len(built) > ActionEffectSlots THEN Panic(c2)
                  ELSE send_segment(c2, IpcSelf(c2, "ActionResult",
                         [main_target |-> request.target,
                          target_id_again |-> request.target,
                          action_id |-> request.action_key,
                          flag |-> 1,
                          effect_count |-> Len(built) % 256,
                          effects |-> [k \in 1..ActionEffectSlots |->
                                         IF k <= Len(built) THEN built[k]
                                         ELSE [kind |-> "None"]]]))
            \* EffectResult: entries[num_entries] = .. on 4 slots, and GainEffect
            statuses == SelectSeq(built, IsStatusEffect)
            c4 == IF c3.crashed THEN c3
                  ELSE IF Len(statuses) > EffectEntrySlots
                    THEN Panic(send_gain_effects(c3, SubSeq(statuses, 1, EffectEntrySlots)))
                  ELSE send_gain_effects(c3, statuses)
        IN  IF c4.crashed THEN c4
            ELSE send_segment(c4, IpcSelf(c4, "EffectResult",
                   [unk1 |-> 1, unk2 |-> 776386,
                    target_id |-> request.target.object_id,
                    current_hp |-> c4.player_data.curr_hp,
                    max_hp |-> c4.player_data.max_hp,
                    current_mp |-> c4.player_data.curr_mp,
                    class_id |-> c4.player_data.classjob_id,
                    shield |-> 0,
                    entry_count |-> Len(statuses),
                    statuses |-> EffectEntries(statuses)]))

\* the effects action scripts build in the model
Damage(amount) == [kind |-> "Damage", amount |-> amount]

Status(effect_id) ==
  [kind |-> "Unk1", effect_id |-> effect_id, duration |-> 20, param |-> effect_id + 1,
   source_actor_id |-> 20]

\* how long an effect list a script returns can be
MaxEffectList == 9

\* lists of one kind of every length, and short mixed ones
EffectLists ==
  { [k \in 1..n |-> Damage(30)] : n \in 0..MaxEffectList }
  \cup { [k \in 1..n |-> Status(50 + k)] : n \in 1..(EffectEntrySlots + 1) }
  \cup { << Damage(150) >>, << Damage(30), Status(50) >>,
         << Status(50), Damage(30) >> }

ActionKeys == { 7, 8 }

ActionTargets == { 20, 21 }

\* the client asks for an action
ExecuteAction ==
  /\ pc = "idle" /\ ~crashed
  /\ \E action_key \in ActionKeys, object_id \in ActionTargets, effects \in EffectLists :
       LET request == [action_key |-> action_key,
                       target |-> [object_id |-> object_id, object_type |-> 0]]
       IN  /\ Install(execute_action(Conn, request, effects))
           /\ op' = [handler |-> "execute_action",
                     arg |-> Some([request |-> request, effects |-> effects])]
  /\ UNCHANGED << build_vars, lock_vars, probe, drain_vars, queued_segments,
                  zone_queued_segments, queued_tasks, wire >>

NextActions == SpawnActor \/ RemoveActor \/ ExecuteAction

SpecActions == Init /\ [][NextActions]_vars

\* the last handler was execute_action
RanAction == op.handler = "execute_action"

\* the messages a handler sent to the server
ToServerOf(out) ==
  LET IsToServer(e) == e.fx = "to_server"
      sent == SelectSeq(out, IsToServer)
  IN  [i \in DOMAIN sent |-> sent[i].msg]

\* this step is an execute_action call
ActionStep ==
  /\ pc = "idle" /\ ~crashed
  /\ op'.handler = "execute_action"
  /\ op' # op \/ fx' # fx \/ actors' # actors \/ crashed'

(***************************************************************************)
(* C23: execute_action for an action without a script sends no segment and *)
(* no message to the server, changes no actor's hp and returns.            *)
(***************************************************************************)
C23_UnscriptedActionDoesNothing ==
  [][ (ActionStep /\ Unwrap(op'.arg).request.action_key \notin DOMAIN action_scripts) =>
        /\ fx' = <<>>
        /\ actors' = actors
        /\ player_data' = player_data
        /\ ~crashed' ]_vars

\* action 8, which has no script, was asked for against an actor on the roster
C23_Witness ==
  /\ RanAction /\ ~crashed
  /\ Unwrap(op.arg).request.action_key = 8 /\ 8 \notin DOMAIN action_scripts
  /\ IsSome(get_actor(Conn, Unwrap(op.arg).request.target.object_id))
  /\ Unwrap(op.arg).effects # <<>>
  /\ fx = <<>>

\* the request and the script's effect list of the execute_action call a step makes
RequestOf(o) == Unwrap(o.arg).request

EffectsOf(o) == Unwrap(o.arg).effects

\* this step is an execute_action call for an action that has a script
ScriptedActionStep ==
  /\ ActionStep
  /\ RequestOf(op').action_key \in DOMAIN action_scripts

(***************************************************************************)
(* C24: a scripted action sends ActionResult, and sends EffectResult only   *)
(* when one of the effects the script returned is a status effect: an       *)
(* action of damage effects alone sends no EffectResult.                    *)
(***************************************************************************)
C24_EffectResultOnlyForStatusEffects ==
  [][ (ScriptedActionStep /\ ~crashed') =>
        /\ Cardinality(OfKinds(fx', { "ActionResult" })) = 1
        /\ (OfKinds(fx', { "EffectResult" }) # {}
              <=> SelectSeq(EffectsOf(op'), IsStatusEffect) # <<>>) ]_vars

(***************************************************************************)
(* C25: for an effect list of any length execute_action runs to its end     *)
(* and sends an ActionResult with effect_count at most 8 and an             *)
(* EffectResult with entry_count at most 4.                                 *)
(***************************************************************************)
C25_EffectSlotsNeverOverrun ==
  [][ (ScriptedActionStep
         /\ ~IsSome(get_actor(Conn, RequestOf(op').target.object_id))) =>
        /\ ~crashed'
        /\ \A i \in OfKinds(fx', { "ActionResult" }) :
             SegmentsOf(fx')[i].data.effect_count <= ActionEffectSlots
        /\ \A i \in OfKinds(fx', { "EffectResult" }) :
             SegmentsOf(fx')[i].data.entry_count <= EffectEntrySlots ]_vars

(***************************************************************************)
(* C26: a scripted action, its target on the roster or not, sends one       *)
(* GainEffect to the server for every status effect of the list, in the     *)
(* list's order and with the effect's id, duration, param and source actor, *)
(* and as many of them as the entry_count of the EffectResult that follows. *)
(***************************************************************************)
\* the GainEffect messages a list of status effects calls for
GainEffectsFor(statuses, actor_id) ==
  [k \in DOMAIN statuses |->
     [name |-> "GainEffect", actor_id |-> actor_id,
      effect_id |-> statuses[k].effect_id, duration |-> statuses[k].duration,
      param |-> statuses[k].param,
      source_actor_id |-> statuses[k].source_actor_id]]

\* the script's list fits the slots of ActionResult and EffectResult
FitsTheSlots(effects) ==
  /\ Len(effects) <= ActionEffectSlots
  /\ Len(SelectSeq(effects, IsStatusEffect)) <= EffectEntrySlots

C26_EveryStatusEffectIsForwarded ==
  [][ (ScriptedActionStep /\ FitsTheSlots(EffectsOf(op'))) =>
        LET statuses == SelectSeq(EffectsOf(op'), IsStatusEffect)
        IN  /\ ToServerOf(fx') = GainEffectsFor(statuses, player_data.actor_id)
            /\ \E i \in OfKinds(fx', { "EffectResult" }) :
                 SegmentsOf(fx')[i].data.entry_count = Len(ToServerOf(fx')) ]_vars

(***************************************************************************)
(* C27: a scripted action against a target on the roster lowers the         *)
(* target's cached hp by the amount of every damage effect, to 0 at the     *)
(* lowest, leaves the hp of the other roster entries alone, and sends       *)
(* UpdateHpMpTp with the new hp before ActionResult.                        *)
(***************************************************************************)
RECURSIVE TotalDamage(_)
TotalDamage(effects) ==
  IF effects = <<>> THEN 0
  ELSE (IF Head(effects).kind = "Damage" THEN Head(effects).amount ELSE 0)
       + TotalDamage(Tail(effects))

\* what is left of hp after the damage, never below 0
HpAfter(hp, effects) ==
  IF hp > TotalDamage(effects) THEN hp - TotalDamage(effects) ELSE 0

C27_DamageLowersTargetHp ==
  [][ (ScriptedActionStep /\ FitsTheSlots(EffectsOf(op'))
         /\ TotalDamage(EffectsOf(op')) > 0
         /\ IsSome(get_actor(Conn, RequestOf(op').target.object_id))) =>
        LET target == Unwrap(get_actor(Conn, RequestOf(op').target.object_id))
            hp == HpAfter(actors[target].hp, EffectsOf(op'))
        IN  /\ actors' = [actors EXCEPT ![target].hp = hp]
            /\ \E i \in OfKinds(fx', { "UpdateHpMpTp" }) :
                 /\ SegmentsOf(fx')[i].data.hp = hp
                 /\ SegmentsOf(fx')[i].source_actor = actors[target].id
                 /\ \E j \in OfKinds(fx', { "ActionResult" }) : i < j ]_vars

\* what does hold: the same for the lists that hold damage effects only
DamageOnlyActionLowersTargetHp ==
  [][ (ScriptedActionStep /\ FitsTheSlots(EffectsOf(op'))
         /\ SelectSeq(EffectsOf(op'), IsStatusEffect) = <<>>
         /\ IsSome(get_actor(Conn, RequestOf(op').target.object_id))) =>
        LET target == Unwrap(get_actor(Conn, RequestOf(op').target.object_id))
            hp == HpAfter(actors[target].hp, EffectsOf(op'))
        IN  /\ actors' = [actors EXCEPT ![target].hp = hp]
            /\ KindsOf(fx') = << "UpdateHpMpTp", "ActionResult", "EffectResult" >>
            /\ SegmentsOf(fx')[1].data.hp = hp
            /\ ~crashed' ]_vars

\* ---------------------------------------------------------------------------
\* Session initialisation
\* ---------------------------------------------------------------------------
\* PacketSegment { segment_type: KeepAliveRequest,
\*                 data: KeepAliveRequest { id: 0xE0037603, .. }, ..Default::default() }
\* (the id as 16-bit halves)
KeepAliveRequestSegment ==
  [segment_type |-> "KeepAliveRequest", source_actor |-> 0, target_actor |-> 0,
   op_code |-> "", data |-> [id |-> << 57347, 30211 >>]]

\* ZoneConnection::initialize: `actor_id` goes to the log line only, the
\* segment carries self.player_data.actor_id
initialize(c, actor_id) ==
  LET \* some still hardcoded values
      c1 == [c EXCEPT !.player_data.curr_hp = 100, !.player_data.max_hp = 100,
                      !.player_data.curr_mp = 10000, !.player_data.max_mp = 10000,
                      !.player_data.item_sequence = 0,
                      !.player_data.shop_sequence = 0]
      \* We have send THEM a keep alive
      c2 == send_segment(c1, KeepAliveRequestSegment)
  IN  send_segment(c2, InitializeSegment(c2))

\* ZoneConnection::send_inventory_ack
send_inventory_ack(c, sequence, action_type) ==
  LET c1 == send_segment(c, IpcSelf(c, "InventoryActionAck",
                           [sequence |-> sequence, action_type |-> action_type]))
  IN  [c1 EXCEPT !.player_data.item_sequence = @ + 1]

\* a faulty variant: the counter is raised before the segment is built
send_gilshop_item_update_SendsNext(c, dst_storage_id, dst_container_index, dst_stack, dst_catalog_id) ==
  LET c1 == [c EXCEPT !.player_data.shop_sequence = @ + 1]
  IN  send_segment(c1, IpcSelf(c1, "UpdateInventorySlot",
                         [sequence |-> c1.player_data.shop_sequence,
                          dst_storage_id |-> dst_storage_id,
                          dst_container_index |-> dst_container_index,
                          dst_stack |-> dst_stack,
                          dst_catalog_id |-> dst_catalog_id]))

\* ZoneConnection::send_gilshop_item_update
send_gilshop_item_update(c, dst_storage_id, dst_container_index, dst_stack, dst_catalog_id) ==
  LET c1 == send_segment(c, IpcSelf(c, "UpdateInventorySlot",
                           [sequence |-> c.player_data.shop_sequence,
                            dst_storage_id |-> dst_storage_id,
                            dst_container_index |-> dst_container_index,
                            dst_stack |-> dst_stack,
                            dst_catalog_id |-> dst_catalog_id]))
  IN  [c1 EXCEPT !.player_data.shop_sequence = @ + 1]

\* the sequence counters are followed up to this value
MaxSequence == 3

\* actor ids a Setup segment of the client names
SetupActorIds == { 1, 2 }

\* the client's Setup segment arrives: the session is initialised for the
\* actor id it names
Initialize ==
  /\ pc = "idle" /\ ~crashed
  /\ \E actor_id \in SetupActorIds :
       /\ Install(initialize(Conn, actor_id))
       /\ op' = [handler |-> "initialize", arg |-> Some([actor_id |-> actor_id])]
  /\ UNCHANGED << build_vars, lock_vars, probe, drain_vars, queued_segments,
                  zone_queued_segments, queued_tasks, wire >>

\* an inventory operation of the client is acknowledged
SendInventoryAck ==
  /\ pc = "idle" /\ ~crashed
  /\ player_data.item_sequence < MaxSequence
  /\ \E sequence \in { 0, 7 }, action_type \in { 0, 1 } :
       /\ Install(send_inventory_ack(Conn, sequence, action_type))
       /\ op' = [handler |-> "send_inventory_ack",
                 arg |-> Some([sequence |-> sequence, action_type |-> action_type])]
  /\ UNCHANGED << build_vars, lock_vars, probe, drain_vars, queued_segments,
                  zone_queued_segments, queued_tasks, wire >>

\* a shop purchase updates a slot
SendGilshopItemUpdate ==
  /\ pc = "idle" /\ ~crashed
  /\ player_data.shop_sequence < MaxSequence
  /\ \E dst_container_index \in { 0, 1 } :
       /\ Install(send_gilshop_item_update(Conn, 0, dst_container_index, 1, 4551))
       /\ op' = [handler |-> "send_gilshop_item_update",
                 arg |-> Some([dst_container_index |-> dst_container_index])]
  /\ UNCHANGED << build_vars, lock_vars, probe, drain_vars, queued_segments,
                  zone_queued_segments, queued_tasks, wire >>

NextInitialize == Initialize \/ SendInventoryAck \/ SendGilshopItemUpdate

SpecInitialize == Init /\ [][NextInitialize]_vars

\* this step is an initialize call
InitializeStep ==
  /\ pc = "idle" /\ ~crashed
  /\ op'.handler = "initialize"
  /\ fx' # <<>>

\* what every initialize call does, whatever id it was called with: two
\* segments, both counters back to 0
InitializeSendsTwoAndResets ==
  /\ Len(fx') = 2
  /\ Len(SegmentsOf(fx')) = 2
  /\ KindOf(SegmentsOf(fx')[1]) = "KeepAliveRequest"
  /\ KindOf(SegmentsOf(fx')[2]) = "Initialize"
  /\ player_data'.item_sequence = 0
  /\ player_data'.shop_sequence = 0

(***************************************************************************)
(* C28: initialize(actor_id) sends exactly two segments, a                 *)
(* KeepAliveRequest and then an Initialize segment that carries the actor  *)
(* id the call was given, and sets item_sequence and shop_sequence to 0.   *)
(***************************************************************************)
C28_InitializeCarriesItsArgument ==
  [][ InitializeStep =>
        /\ InitializeSendsTwoAndResets
        /\ SegmentsOf(fx')[2].data.actor_id = Unwrap(op'.arg).actor_id ]_vars

\* what does hold: the Initialize segment carries the actor id of the
\* session's player data, and the rest of C28
InitializeCarriesSessionActorId ==
  [][ InitializeStep =>
        /\ InitializeSendsTwoAndResets
        /\ SegmentsOf(fx')[2].data.actor_id = player_data.actor_id ]_vars


\* ---------------------------------------------------------------------------
\* The weather window and the weather tables
\* ---------------------------------------------------------------------------
\* clock readings whose windows are 56, 12, 64, 0 and 96
WindowTimestamps == { 0, 28800, 86400, 200000, 1000000 }

\* the rates of the tables of the model (a u8 column): the windows 0, 12 and
\* 56 themselves, and 100, which every window is below
TableRates == { 0, 12, 56, 100 }

\* the longest weather table of the model
MaxTableLen == 2

\* the tables of `n` entries; the entry at position k has weather id k + 1,
\* so that the weather tells which entry was taken
RECURSIVE TablesOfLen(_)
TablesOfLen(n) ==
  IF n = 0 THEN { <<>> }
  ELSE { Append(t, <<n + 1, r>>) : t \in TablesOfLen(n - 1), r \in TableRates }

WeatherTables == UNION { TablesOfLen(n) : n \in 0..MaxTableLen }

\* get_weather_rate reads a row holding `table` while the clock shows
\* `timestamp`
ReadWeatherRate ==
  /\ ~crashed
  /\ \E table \in WeatherTables, timestamp \in WindowTimestamps :
       LET target == calculate_target(timestamp)
       IN  probe' = << [table |-> table, timestamp |-> timestamp, target |-> target,
                        weather |-> select_weather(table, target)] >>
  /\ op' = [handler |-> "get_weather_rate", arg |-> None]
  /\ fx' = <<>>
  /\ UNCHANGED << build_vars, lock_vars, session_vars, drain_vars, queued_segments,
                  zone_queued_segments, queued_tasks, wire >>

\* the zones the session goes to: 100 has a table whose last rate is 100,
\* 102 one whose only rate is 0
RatedZones == { 100, 102 }

\* the session changes zone while the clock shows `timestamp`
ChangeZone ==
  /\ pc = "idle" /\ ~crashed
  /\ \E zone_id \in RatedZones, timestamp \in Timestamps :
       /\ Install(change_zone(Conn, zone_id,
                     [DefaultEnv EXCEPT !.target = calculate_target(timestamp)]))
       /\ op' = [handler |-> "change_zone",
                 arg |-> Some([zone_id |-> zone_id, timestamp |-> timestamp])]
  /\ UNCHANGED << build_vars, lock_vars, probe, drain_vars, queued_segments,
                  zone_queued_segments, queued_tasks, wire >>

NextWeatherRate == ReadWeatherRate \/ ChangeZone

SpecWeatherRate == Init /\ [][NextWeatherRate]_vars

\* the entries of `table` whose rate is above `value`
Exceeding(table, value) == { i \in DOMAIN table : table[i][2] > value }

\* the weather ids get_weather can give for the zone over all window values
WeathersOfZone(zone_id) ==
  { Unwrap(get_weather(zone_id, value)) :
      value \in { v \in 0..99 : IsSome(get_weather(zone_id, v)) } }

(***************************************************************************)
(* C29: calculate_target's window value lies in 0..99; for every weather   *)
(* table get_weather_rate gives the weather id of the first entry, in      *)
(* table order, whose rate is strictly above the value, and no weather     *)
(* when no rate is above it, in which case change_zone shows weather 1.    *)
(***************************************************************************)
C29_FirstEntryAboveTheWindow ==
  /\ (op.handler = "get_weather_rate" /\ probe # None) =>
       LET r == probe[1]
           above == Exceeding(r.table, r.target)
       IN  /\ r.target \in 0..99
           /\ above = {} => r.weather = None
           /\ above # {} =>
                \E i \in above :
                  /\ \A j \in above : i <= j
                  /\ r.weather = Some(r.table[i][1])
  /\ (op.handler = "change_zone" /\ ~crashed) =>
       LET weathers == WeathersOfZone(Unwrap(op.arg).zone_id)
           weather == get_weather(Unwrap(op.arg).zone_id,
                                  calculate_target(Unwrap(op.arg).timestamp))
       IN  /\ weathers = {} => weather_id = 1
           /\ weathers # {} => weather_id \in weathers
           /\ weather_id = IF IsSome(weather) THEN Unwrap(weather) ELSE 1

\* the window was 56 and the table's first rate 56 too, so the second entry
\* was taken; the session had gone to zone 102, no rate of which is above any
\* window, and shows weather 1
C29_Witness ==
  /\ op.handler = "get_weather_rate" /\ probe # None
  /\ probe[1].target = 56
  /\ probe[1].table = << <<2, 56>>, <<3, 100>> >>
  /\ probe[1].weather = Some(3)
  /\ zone # None /\ Unwrap(zone).id = 102
  /\ weather_id = 1

\* ---------------------------------------------------------------------------
\* The order of an inventory synchronisation
\* ---------------------------------------------------------------------------
\* the positions of the ContainerInfo segments among the segments `s`
InfoPositions(s) ==
  SelectSeq([i \in 1..Len(s) |-> i], LAMBDA i : KindOf(s[i]) = "ContainerInfo")

(***************************************************************************)
(* C30: one send_inventory call sends, for each stored container in        *)
(* iteration order, the container's slot or currency updates and then one  *)
(* ContainerInfo for it; after the last stored container come four         *)
(* ContainerInfo segments with num_items 0, for Crystals, Mail, Unk2 and   *)
(* ArmoryWaist in this order; the sequences of the call's ContainerInfo    *)
(* segments are strictly increasing, hence pairwise distinct.              *)
(***************************************************************************)
C30_ContainerInfoClosesEachContainer ==
  (op.handler = "send_inventory" /\ ~crashed) =>
    LET s == SegmentsOf(fx)
        inventory == player_data.inventory
        stored == Len(inventory)
        infos == InfoPositions(s)
    IN  /\ Len(s) = Len(fx)
        /\ Len(infos) = stored + Len(DummyContainers)
        /\ \A k \in 1..stored :
             /\ s[infos[k]].data.container = inventory[k].container_type
             /\ \A i \in ((IF k = 1 THEN 0 ELSE infos[k - 1]) + 1)..(infos[k] - 1) :
                  /\ KindOf(s[i]) \in { "UpdateItem", "CurrencyCrystalInfo" }
                  /\ s[i].data.container = inventory[k].container_type
        /\ \A d \in 1..Len(DummyContainers) :
             /\ infos[stored + d] = (IF stored = 0 THEN 0 ELSE infos[stored]) + d
             /\ s[infos[stored + d]].data.container = DummyContainers[d]
             /\ s[infos[stored + d]].data.num_items = 0
        /\ infos[Len(infos)] = Len(s)
        /\ \A a, b \in 1..Len(infos) :
             a < b => s[infos[a]].data.sequence < s[infos[b]].data.sequence

\* a later synchronisation of an inventory with an item on its page: every
\* slot is reported, seven ContainerInfo segments close the call
C30_Witness ==
  /\ op.handler = "send_inventory" /\ ~crashed
  /\ ~Unwrap(op.arg).first_update
  /\ player_data.inventory[1].slots[1].quantity # U32(0)
  /\ Len(InfoPositions(SegmentsOf(fx))) = 7
  /\ Len(SegmentsOf(fx)) = 7 + PageSlots + 2
  /\ SegmentsOf(fx)[Len(fx)].data.sequence = 6

\* ---------------------------------------------------------------------------
\* The frame of an aetheryte unlock
\* ---------------------------------------------------------------------------
\* the LearnTeleport segments a step sent are for the ids `lo`..`hi` in
\* increasing order, one each, with the flag `on`, and nothing else was sent
LearnTeleportsFor(out, lo, hi, on) ==
  LET s == SegmentsOf(out)
  IN  /\ Len(out) = hi - lo + 1
      /\ Len(s) = hi - lo + 1
      /\ \A i \in DOMAIN s :
           /\ KindOf(s[i]) = "ActorControlSelf"
           /\ s[i].data.category = "LearnTeleport"
           /\ s[i].data.id = lo + i - 1
           /\ s[i].data.unlocked = on

(***************************************************************************)
(* C31: an UnlockAetheryte task with id 0 and on = true sets the unlock    *)
(* bit of every aetheryte id 1..238, leaves every other bit of the bitmap  *)
(* as it was and sends one LearnTeleport segment per id in increasing id   *)
(* order; with a non-zero id only that id's bit changes and exactly one    *)
(* LearnTeleport segment is sent.                                          *)
(***************************************************************************)
C31_UnlockTouchesOnlyAddressedBits ==
  [][ TaskStep("UnlockAetheryte") =>
        LET task == tasks[task_i]
            before == player_data.unlocks.aetherytes
            after == player_data'.unlocks.aetherytes
        IN  /\ \A n \in BitmapBits \ AddressedBy(task.id) :
                 BitOf(after, n) = BitOf(before, n)
            /\ task.on => \A n \in AddressedBy(task.id) : BitOf(after, n)
            /\ IF task.id = 0
                 THEN LearnTeleportsFor(fx', 1, UnlockAllEnd - 1, task.on)
                 ELSE LearnTeleportsFor(fx', task.id, task.id, task.on) ]_vars

\* the bulk unlock ran: 238 segments, bits 1..238 set, bits 0 and 239 clear
C31_Witness ==
  /\ RanTask("UnlockAetheryte")
  /\ Unwrap(op.arg).id = 0 /\ Unwrap(op.arg).on
  /\ Len(fx) = 238
  /\ \A n \in 1..238 : BitOf(player_data.unlocks.aetherytes, n)
  /\ ~BitOf(player_data.unlocks.aetherytes, 0)
  /\ ~BitOf(player_data.unlocks.aetherytes, 239)

\* ---------------------------------------------------------------------------
\* The item and shop sequence counters
\* ---------------------------------------------------------------------------
\* ZoneConnection::send_inventory_transaction_finish
send_inventory_transaction_finish(c, unk1, unk2) ==
  send_segment(c, IpcSelf(c, "InventoryTransactionFinish",
                 [sequence |-> c.player_data.item_sequence,
                  sequence_repeat |-> c.player_data.item_sequence,
                  unk1 |-> unk1, unk2 |-> unk2]))

\* an inventory transaction is closed
SendInventoryTransactionFinish ==
  /\ pc = "idle" /\ ~crashed
  /\ \E unk1 \in { 0, 144 } :
       /\ Install(send_inventory_transaction_finish(Conn, unk1, 0))
       /\ op' = [handler |-> "send_inventory_transaction_finish",
                 arg |-> Some([unk1 |-> unk1])]
  /\ UNCHANGED << build_vars, lock_vars, probe, drain_vars, queued_segments,
                  zone_queued_segments, queued_tasks, wire >>

NextSequences ==
  \/ Initialize
  \/ SendInventoryAck
  \/ SendGilshopItemUpdate
  \/ SendInventoryTransactionFinish
  \/ SendInventory

SpecSequences == Init /\ [][NextSequences]_vars

(***************************************************************************)
(* C32: between two initialize calls item_sequence and shop_sequence never *)
(* decrease: send_inventory_ack raises item_sequence by exactly 1,         *)
(* send_gilshop_item_update sends the current shop_sequence and then       *)
(* raises it by exactly 1, and no other operation changes either counter.  *)
(***************************************************************************)
C32_SequenceCountersOnlyGrow ==
  [][ op'.handler # "initialize" =>
        LET item == player_data.item_sequence
            shop == player_data.shop_sequence
            item_after == player_data'.item_sequence
            shop_after == player_data'.shop_sequence
        IN  /\ item_after >= item /\ shop_after >= shop
            /\ item_after # item =>
                 /\ op'.handler = "send_inventory_ack"
                 /\ item_after = item + 1
                 /\ shop_after = shop
            /\ shop_after # shop =>
                 /\ op'.handler = "send_gilshop_item_update"
                 /\ shop_after = shop + 1
                 /\ item_after = item
            /\ (op'.handler = "send_inventory_ack" /\ op' # op) => item_after = item + 1
            /\ (op'.handler = "send_gilshop_item_update" /\ fx' # fx) =>
                 /\ shop_after = shop + 1
                 /\ Len(fx') = 1
                 /\ KindOf(SegmentsOf(fx')[1]) = "UpdateInventorySlot"
                 /\ SegmentsOf(fx')[1].data.sequence = shop
            /\ (op'.handler = "send_inventory_transaction_finish" /\ fx' # fx) =>
                 SegmentsOf(fx')[1].data.sequence = item ]_vars

\* the second shop update since the last initialize, after an
\* acknowledgment: it carried sequence 1 and left the counter at 2
C32_Witness ==
  /\ op.handler = "send_gilshop_item_update" /\ ~crashed
  /\ player_data.shop_sequence = 2
  /\ player_data.item_sequence = 1
  /\ SegmentsOf(fx)[1].data.sequence = 1

\* ---------------------------------------------------------------------------
\* Leaving a zone
\* ---------------------------------------------------------------------------
\* the positions in `out` of the LeftZone messages to the world coordinator
LeftZonePositions(out) ==
  { i \in DOMAIN out : out[i].fx = "to_server" /\ out[i].msg.name = "LeftZone" }

(***************************************************************************)
(* C33: change_zone sends LeftZone to the world coordinator exactly when   *)
(* the session already has a zone; the message names the zone being left,  *)
(* not the destination, and goes out before anything is sent to the        *)
(* client, so the first zone load of a session sends no LeftZone.          *)
(***************************************************************************)
C33_LeftZoneNamesTheZoneLeft ==
  [][ ZoneChangeTurn =>
        IF zone = None
          THEN LeftZonePositions(fx') = {}
          ELSE /\ LeftZonePositions(fx') = { 1 }
               /\ fx'[1].msg.zone_id = Unwrap(zone).id
               /\ fx'[1].msg.actor_id = player_data.actor_id
               /\ Len(SegmentsOf(fx')) > 0 ]_vars

\* a zone change out of one zone into another: the LeftZone that came
\* first names the zone left, and the session is in the other
C33_Witness ==
  /\ RanZoneChange
  /\ zone # None
  /\ LeftZonePositions(fx) = { 1 }
  /\ fx[1].msg.zone_id # Unwrap(zone).id
  /\ fx[1].msg.zone_id # 0


\* ---------------------------------------------------------------------------
\* The gil balance
\* ---------------------------------------------------------------------------
\* the balance up to which scripts go on queueing gil tasks in the model
MaxGil == 8

GilTasks ==
  { [name |-> "AddGil", amount |-> U32(a)] : a \in { 2, 5 } }
  \cup { [name |-> "RemoveGil", amount |-> U32(a), send_client_update |-> b] :
           a \in { 1, 3 }, b \in BOOLEAN }

\* a script queues a gil task (LuaPlayer::add_gil / remove_gil)
ScriptQueuesGilTask ==
  /\ gil(Conn)[1] = 0 /\ gil(Conn)[2] <= MaxGil
  /\ ScriptQueuesTask(GilTasks)

NextGil == ScriptQueuesGilTask \/ Drain

SpecGil == Init /\ [][NextGil]_vars

\* a <= b for u32 values
Leq32(a, b) == a[1] < b[1] \/ (a[1] = b[1] /\ a[2] <= b[2])

\* this step is the drain's turn for an AddGil or RemoveGil task
GilTurn ==
  /\ pc = "drain" /\ ~crashed
  /\ task_i <= Len(tasks)
  /\ tasks[task_i].name \in { "AddGil", "RemoveGil" }

\* the balance after the step is the balance before it plus (AddGil) or
\* minus (RemoveGil) the task's amount, as numbers
ExactGil ==
  LET task == tasks[task_i]
      result == IF task.name = "AddGil" THEN Add32(gil(Conn), task.amount)
                ELSE Sub32(gil(Conn), task.amount)
  IN  /\ ~result.overflow
      /\ player_data'.inventory[CurrencyIndex].slots[1].quantity = result.value

(***************************************************************************)
(* C34: every AddGil and RemoveGil task leaves the balance at the balance  *)
(* before it plus or minus the amount, inside 0..2^32-1; a RemoveGil of    *)
(* more than the balance neither wraps the balance round to a large value  *)
(* nor ends the session.                                                   *)
(***************************************************************************)
C34_GilNeverWrapsNorPanics ==
  [][ GilTurn =>
        /\ ~crashed'
        /\ IF tasks[task_i].name = "RemoveGil"
                /\ ~Leq32(tasks[task_i].amount, gil(Conn))
             THEN Leq32(player_data'.inventory[CurrencyIndex].slots[1].quantity,
                        gil(Conn))
             ELSE ExactGil ]_vars

\* what does hold: a task whose amount the balance covers (RemoveGil) or
\* leaves room for (AddGil) is exact and does not end the session
GilIsExactWithinTheBalance ==
  [][ ( /\ GilTurn
        /\ tasks[task_i].name = "RemoveGil" => Leq32(tasks[task_i].amount, gil(Conn))
        /\ tasks[task_i].name = "AddGil" =>
             ~Add32(gil(Conn), tasks[task_i].amount).overflow )
      => (~crashed' /\ ExactGil) ]_vars

\* ---------------------------------------------------------------------------
\* Tasks queued behind a logout
\* ---------------------------------------------------------------------------
\* the loop ran through a queue that held a BeginLogOut task
DrainedALogOut ==
  /\ pc = "drain" /\ ~crashed /\ task_i > Len(tasks)
  /\ \E i \in DOMAIN tasks : tasks[i].name = "BeginLogOut"

(***************************************************************************)
(* C35: when a drained task queue holds BeginLogOut, the PlayerData in the *)
(* durable store is the session's PlayerData at the end of the drain: no   *)
(* task queued behind BeginLogOut changes PlayerData after the commit.     *)
(***************************************************************************)
C35_NothingChangesAfterTheCommit ==
  DrainedALogOut => database = Some(player_data)

\* what does hold: a queue that ends with its BeginLogOut leaves the store
\* and the session equal
LogOutAsLastTaskCommitsTheFinalData ==
  (DrainedALogOut /\ tasks[Len(tasks)].name = "BeginLogOut")
    => database = Some(player_data)

\* ---------------------------------------------------------------------------
\* The session's config and the config read at each use
\* ---------------------------------------------------------------------------
\* the world config is changed on disk while the session runs: get_config()
\* is called anew at each use, ZoneConnection::config was filled when the
\* session was made
ConfigFileEdited ==
  /\ ~crashed
  /\ \E world \in [enable_packet_obsfucation : BOOLEAN,
                   enable_packet_compression : BOOLEAN] :
       /\ world # global_config
       /\ global_config' = world
  /\ UNCHANGED << config, overflow_checks, lock_vars, probe, session_vars, drain_vars,
                  queued_segments, zone_queued_segments, queued_tasks, op, fx, wire >>

ConfigTasks ==
  { [name |-> "ChangeTerritory", zone_id |-> 100],
    [name |-> "ChangeWeather", id |-> 2] }

NextConfig == ScriptQueuesTask(ConfigTasks) \/ Drain \/ ConfigFileEdited

SpecConfig == Init /\ [][NextConfig]_vars

\* the InitZone segments among those just sent
InitZonesOf(out) ==
  { SegmentsOf(out)[i] : i \in OfKinds(out, { "InitZone" }) }

(***************************************************************************)
(* C36: in every reachable state the session's scrambler keys, when        *)
(* present, are the keys generated from the seeds the session stores, and  *)
(* every InitZone segment announces obfuscation as enabled exactly when    *)
(* the session holds scrambler keys: the session's copy of the config and  *)
(* the config read for the InitZone mode never disagree.                   *)
(***************************************************************************)
C36_InitZoneModeAgreesWithKeys ==
  /\ IsSome(obsfucation_data.keys) =>
       obsfucation_data.keys =
         Some(generate(obsfucation_data.seed1, obsfucation_data.seed2,
                       obsfucation_data.seed3))
  /\ (RanTask("ChangeTerritory") /\ ~crashed) =>
       \A segment \in InitZonesOf(fx) :
         (segment.data.obsfucation_mode = OBFUSCATION_ENABLED_MODE)
           <=> IsSome(obsfucation_data.keys)

\* what does hold: the keys are those of the stored seeds, and they are
\* present exactly when the session's own config asks for them and a zone
\* was entered
KeysFollowTheSessionConfig ==
  /\ IsSome(obsfucation_data.keys) =>
       /\ obsfucation_data.keys =
            Some(generate(obsfucation_data.seed1, obsfucation_data.seed2,
                          obsfucation_data.seed3))
       /\ config.enable_packet_obsfucation
  /\ (RanTask("ChangeTerritory") /\ ~crashed) =>
       IsSome(obsfucation_data.keys) = config.enable_packet_obsfucation


\* ---------------------------------------------------------------------------
\* Class/job ids and the per-job arrays
\* ---------------------------------------------------------------------------
(***************************************************************************)
(* C37: whatever class/job id a SetClassJob task sets, the level and       *)
(* experience accesses that follow stay inside the per-job arrays: an id   *)
(* with no exp-array index, or with a negative one, does not end the       *)
(* session.                                                                *)
(***************************************************************************)
C37_AnyClassJobIdIsSafe ==
  [][ TaskTurn("SetClassJob") => ~crashed' ]_vars

\* ---------------------------------------------------------------------------
\* Locking aetherytes
\* ---------------------------------------------------------------------------
\* this step is the drain's turn for an UnlockAetheryte task with on = false
LockStep ==
  /\ TaskStep("UnlockAetheryte")
  /\ ~tasks[task_i].on

(***************************************************************************)
(* C38: after an UnlockAetheryte task with on = false, for one id or for   *)
(* the bulk id 0, the unlock bit of every affected aetheryte is clear      *)
(* whatever it was before, so the bitmap agrees with the unlocked = false  *)
(* flag of the LearnTeleport segments and a second run of the task changes *)
(* nothing.                                                                *)
(***************************************************************************)
C38_LockClearsTheBit ==
  [][ LockStep =>
        \A n \in AddressedBy(tasks[task_i].id) :
          ~BitOf(player_data'.unlocks.aetherytes, n) ]_vars

\* what does hold: the task flips every affected bit, so it clears the bits
\* that were set, sets the bits that were clear, and leaves the others
LockTogglesTheBit ==
  [][ LockStep =>
        \A n \in BitmapBits :
          BitOf(player_data'.unlocks.aetherytes, n) =
            IF n \in AddressedBy(tasks[task_i].id)
              THEN ~BitOf(player_data.unlocks.aetherytes, n)
              ELSE BitOf(player_data.unlocks.aetherytes, n) ]_vars

\* ---------------------------------------------------------------------------
\* The active event
\* ---------------------------------------------------------------------------
(***************************************************************************)
(* C39: after start_event the session's active event is the event whose   *)
(* id the call was given, or absent: an unscripted start never leaves the  *)
(* event of an earlier, scripted start in place; and event_finish leaves   *)
(* the stored target at the default.                                       *)
(***************************************************************************)
C39_ActiveEventIsTheOneStarted ==
  RanTask("StartEvent") =>
    /\ event = None \/ Unwrap(event).id = Unwrap(op.arg).event_id
    /\ Unwrap(op.arg).event_id \notin DOMAIN event_scripts
         => player_data.target_actorid = ObjectTypeId_default

\* what does hold: a scripted start makes its event the active one, an
\* unscripted start leaves the active event as it was and the target at the
\* default
UnscriptedStartKeepsTheActiveEvent ==
  [][ (TaskTurn("StartEvent") /\ ~crashed') =>
        IF tasks[task_i].event_id \in DOMAIN event_scripts
          THEN /\ event' # None
               /\ Unwrap(event').id = tasks[task_i].event_id
          ELSE /\ event' = event
               /\ player_data'.target_actorid = ObjectTypeId_default ]_vars

\* ---------------------------------------------------------------------------
\* Custom IPC to the world server (packet/send_helpers.rs)
\* ---------------------------------------------------------------------------
\* PacketSegment { segment_type: KawariIpc, data: KawariIpc { data }, .. }
KawariIpcSegment(data) ==
  [segment_type |-> "KawariIpc", payload_size |-> 32, data |-> data]

\* send_custom_world_packet: `connected` is whether TcpStream::connect
\* succeeded, `response` what stream.read gave (ok, the byte count n) and the
\* segments parse_packet makes of those bytes
send_custom_world_packet(segment, connected, response) ==
  LET packet == send_packet("None", "Uncompressed", << KawariIpcSegment(segment) >>,
                            None, 1)
  IN  IF ~connected
        THEN [wire |-> None, returned |-> None, panicked |-> TRUE]
      ELSE IF ~response.ok
        THEN [wire |-> Some(packet), returned |-> None, panicked |-> TRUE]
      ELSE IF response.n = 0
        THEN [wire |-> Some(packet), returned |-> None, panicked |-> FALSE]
      ELSE IF Len(response.segments) = 0
        \* segments[0] on an empty Vec
        THEN [wire |-> Some(packet), returned |-> None, panicked |-> TRUE]
      ELSE [wire |-> Some(packet),
            returned |-> IF response.segments[1].segment_type = "KawariIpc"
                           THEN Some(response.segments[1].data) ELSE None,
            panicked |-> FALSE]

\* the custom IPC payloads of the model
CustomIpcSegments == { [op_code |-> "GetActorId"], [op_code |-> "ActorIdFound"] }

\* what comes back from the world server: a failed read, no bytes, bytes that
\* parse to no segment, and packets of one or two segments
CustomIpcResponses ==
  LET found == KawariIpcSegment([op_code |-> "ActorIdFound"])
      other == KawariIpcSegment([op_code |-> "GetActorId"])
      alive == [segment_type |-> "KeepAliveResponse", payload_size |-> 8,
                data |-> [id |-> 0, timestamp |-> 0]]
  IN  { [ok |-> FALSE, n |-> 0, segments |-> <<>>],
        [ok |-> TRUE, n |-> 0, segments |-> <<>>],
        [ok |-> TRUE, n |-> PacketHeaderSize, segments |-> <<>>],
        [ok |-> TRUE, n |-> PacketHeaderSize + 48, segments |-> << found >>],
        [ok |-> TRUE, n |-> PacketHeaderSize + 24, segments |-> << alive >>],
        [ok |-> TRUE, n |-> PacketHeaderSize + 96, segments |-> << found, other >>],
        [ok |-> TRUE, n |-> PacketHeaderSize + 72, segments |-> << alive, found >>] }

\* another server of the installation asks the world server something
SendCustomWorldPacket ==
  /\ \E segment \in CustomIpcSegments, connected \in BOOLEAN,
        response \in CustomIpcResponses :
       LET result == send_custom_world_packet(segment, connected, response)
       IN  /\ wire' = result.wire
           /\ probe' = << [segment |-> segment, connected |-> connected,
                           response |-> response, returned |-> result.returned,
                           panicked |-> result.panicked] >>
  /\ op' = [handler |-> "send_custom_world_packet", arg |-> None]
  /\ fx' = <<>>
  /\ UNCHANGED << build_vars, lock_vars, session_vars, drain_vars, queued_segments,
                  zone_queued_segments, queued_tasks >>

NextCustomIpc == SendCustomWorldPacket

SpecCustomIpc == Init /\ [][NextCustomIpc]_vars

\* a send_custom_world_packet call that connected and read a response
AnsweredCustomIpc ==
  /\ op.handler = "send_custom_world_packet" /\ probe # None
  /\ probe[1].connected /\ probe[1].response.ok

(***************************************************************************)
(* C40: send_custom_world_packet returns the payload of the response's     *)
(* first segment when that segment is a custom IPC segment and no value    *)
(* in every other case, a response of zero bytes and a non-empty response  *)
(* that parses to zero segments included: it never fails on a response     *)
(* without segments.                                                       *)
(***************************************************************************)
C40_NoSegmentsMeansNoValue ==
  AnsweredCustomIpc =>
    LET r == probe[1]
        segments == r.response.segments
    IN  /\ ~r.panicked
        /\ r.returned =
             IF r.response.n # 0 /\ Len(segments) > 0
                  /\ segments[1].segment_type = "KawariIpc"
               THEN Some(segments[1].data)
               ELSE None

\* what does hold: the claim for the responses of zero bytes and for those
\* that parse to at least one segment
FirstSegmentDecidesTheValue ==
  (AnsweredCustomIpc
     /\ (probe[1].response.n = 0 \/ Len(probe[1].response.segments) > 0)) =>
    LET r == probe[1]
        segments == r.response.segments
    IN  /\ ~r.panicked
        /\ r.returned =
             IF r.response.n # 0 /\ segments[1].segment_type = "KawariIpc"
               THEN Some(segments[1].data)
               ELSE None
=============================================================================
